---- MODULE Spec2Model ----
(***************************************************************************)
(* Model of the bora frontend: the session manager (auth.js: apiFetch,     *)
(* refreshAccessToken, login, logout, loadCurrentUser) and the event       *)
(* filter / fetch / render pipeline (events.js, filters.js, pins.js,       *)
(* map.js).                                                                *)
(*                                                                         *)
(* JavaScript runs handlers to completion: one action of the model is one  *)
(* macrotask (a click, or the arrival of one network response) together    *)
(* with every microtask continuation it resumes, up to the next network    *)
(* await.                                                                  *)
(***************************************************************************)
EXTENDS Integers, Sequences, FiniteSets, TLC

\* ------------------------------------------------------------------------
\* Bounds
\* ------------------------------------------------------------------------
\* user-level operations (page load, clicks) of one behaviour of the session
MaxRoots == 2

\* calls of loadAndRenderEvents in one behaviour of the pipeline
MaxFetches == 3

\* UTC offsets of the browser's time zone, in hours either way
MaxOffset == 3

\* localStorage.getItem(...) === null, an absent JSON field, "no result yet"
NONE == "none"

\* token values: the pair a login stores, and the pair a refresh answers with
OldToken == "t1"
NewToken == "t2"

\* what one fetch() can end with: a status, or a rejection (network failure)
Statuses == {"200", "401", "500"}
Outcomes == Statuses \cup {"neterr"}

Roots == 1..MaxRoots

VARIABLES
    access,      \* localStorage access_token
    refresh,     \* localStorage refresh_token
    user,        \* localStorage user
    authUI,      \* what #auth-section shows: "empty", "user", "login"
    calls,       \* per user-level operation, the chain of apiFetch activations
                 \* it caused: its own request, then the logout requests
    nRoots,      \* user-level operations so far
    signals,     \* auth:logout events dispatched so far
    denied,      \* every response so far was a 401 or a failed refresh
    lastReturn,  \* what the latest step's apiFetch activation returned
    lastRefresh  \* what the latest step's refreshAccessToken saw and left

authVars ==
    <<access, refresh, user, authUI, calls, nRoots, signals, denied,
      lastReturn, lastRefresh>>

VARIABLES
    filters,        \* events.js: the filters object
    clock,          \* what new Date() gives: local day, local hour, UTC offset
    dateUI,         \* the date buttons that have the class active, and
                    \* #custom-date's value
    search,         \* #search-input's value and the pending debounce timer
    requests,       \* fetchEvents requests awaiting their answer
    nFetches,       \* loadAndRenderEvents calls so far
    mapSource,      \* the data of the map's events-source
    activeMarkers,  \* pins.js: activeMarkers
    mapMarkers,     \* the Marker objects: those attached to the map, and
                    \* those the entries of activeMarkers hold
    lastUrl,        \* the URL the latest step's fetchEvents requested
    lastRender      \* what the latest step's loadAndRenderEvents published

eventVars ==
    <<filters, clock, dateUI, search, requests, nFetches, mapSource,
      activeMarkers, mapMarkers, lastUrl, lastRender>>

VARIABLES
    detail,     \* #sidebar-right: shown or not, and the event it was filled with
    viewport,   \* the event the map last flew to (flyToEvent)
    modal,      \* #modal-overlay has the class open
    draft,      \* the creation form's draft: #selected-lat, #selected-lng,
                \* tagSet, #cover-preview, a FileReader at work, miniMapMarker
    form,       \* #btn-submit-event disabled, #location-error and
                \* #form-error-global shown
    creates,    \* per user-level operation, how far its submitCreateEvent is
                \* and the tags the draft had when its success closed the modal
    authModal,  \* #auth-modal-overlay and its form: attached, the mode, the
                \* submit button disabled, #auth-error shown, and how far the
                \* submit handler is
    lastOpen,   \* the properties the latest step's openEventDetail was given
    lastToast   \* the toast the latest step showed

uiVars ==
    <<detail, viewport, modal, draft, form, creates, authModal, lastOpen,
      lastToast>>

vars == <<authVars, eventVars, uiVars>>

\* ------------------------------------------------------------------------
\* auth.js
\* ------------------------------------------------------------------------
NewCall(url) ==
    [url |-> url, pc |-> "first", captured |-> NONE, rotated |-> NONE,
     refreshed |-> NONE, nRefresh |-> 0, nRetry |-> 0, loggedOut |-> FALSE]

NoReturn == [root |-> 0, level |-> 0, res |-> NONE]

NoRefresh ==
    [root |-> 0, level |-> 0, out |-> NONE, data |-> <<NONE, NONE>>, sent |-> NONE,
     before |-> <<NONE, NONE>>, after |-> <<NONE, NONE>>]

\* the session and the activations, as one value the handlers transform
World ==
    [access |-> access, refresh |-> refresh, user |-> user, authUI |-> authUI,
     calls |-> calls, signals |-> signals,
     lastReturn |-> NoReturn, lastRefresh |-> NoRefresh]

getAccessToken(w) == w.access

getRefreshToken(w) == w.refresh

setTokens(w, a, r) ==
    [w EXCEPT !.access = a, !.refresh = IF r # NONE THEN r ELSE @]

\* mutant: the tokens are left in the storage
clearTokens_KeepTokens(w) == [w EXCEPT !.user = NONE]

clearTokens(w) ==
    [w EXCEPT !.access = NONE, !.refresh = NONE, !.user = NONE]

isLoggedIn(w) == getAccessToken(w) # NONE

renderAuthSection(w) ==
    [w EXCEPT !.authUI = IF w.user # NONE THEN "user" ELSE "login"]

\* apiFetch up to its first await: the request is sent
apiFetchStart(w, url, root) ==
    [w EXCEPT !.calls[root] = Append(@, NewCall(url))]

\* mutant: the stored user is not removed
logoutFinish_KeepUser(w, root, trigger) ==
    LET w1 == renderAuthSection([w EXCEPT !.access = NONE, !.refresh = NONE]) IN
    [w1 EXCEPT !.signals = @ + 1,
               !.calls[root] = IF trigger = 0 THEN @
                               ELSE [@ EXCEPT ![trigger].loggedOut = TRUE]]

\* logout after its await: clearTokens, renderAuthSection, dispatch auth:logout;
\* trigger is the level of the activation whose failed refresh called logout
logoutFinish(w, root, trigger) ==
    LET w1 == renderAuthSection(clearTokens(w)) IN
    [w1 EXCEPT !.signals = @ + 1,
               !.calls[root] = IF trigger = 0 THEN @
                               ELSE [@ EXCEPT ![trigger].loggedOut = TRUE]]

\* logout up to its await (none when there is no session to invalidate)
logout(w, root, trigger) ==
    IF getRefreshToken(w) # NONE /\ isLoggedIn(w)
    THEN apiFetchStart(w, "logout", root)
    ELSE logoutFinish(w, root, trigger)

\* loadCurrentUser after its await
loadCurrentUserFinish(w, res) ==
    IF res = "200"
    THEN renderAuthSection([w EXCEPT !.user = "u"])
    ELSE w

\* mutant: logout without its .catch, a rejected logout request ends it
apiFetchReturn_NoCatch(w, root, k, res) ==
    LET w1 == [w EXCEPT !.calls[root][k].pc = "done",
                        !.calls[root][k].captured = NONE,
                        !.calls[root][k].rotated = NONE,
                        !.lastReturn = [root |-> root, level |-> k, res |-> res]]
        url == w.calls[root][k].url
    IN  CASE url = "logout" /\ res # "neterr" -> logoutFinish(w1, root, k - 1)
          [] url = "me"     -> loadCurrentUserFinish(w1, res)
          [] OTHER          -> w1

\* apiFetch returns res (a status) or throws (res = "neterr"); the awaiting
\* caller continues in the same run
apiFetchReturn(w, root, k, res) ==
    LET w1 == [w EXCEPT !.calls[root][k].pc = "done",
                        !.calls[root][k].captured = NONE,
                        !.calls[root][k].rotated = NONE,
                        !.lastReturn = [root |-> root, level |-> k, res |-> res]]
        url == w.calls[root][k].url
    IN  CASE url = "logout" -> logoutFinish(w1, root, k - 1)
          [] url = "me"     -> loadCurrentUserFinish(w1, res)
          [] OTHER          -> w1

\* refreshAccessToken up to its await
refreshStart(w, root, k) ==
    [w EXCEPT !.calls[root][k].pc = "refresh",
              !.calls[root][k].captured = getRefreshToken(w),
              !.calls[root][k].nRefresh = @ + 1]

\* mutant: no fallback to the refresh token that was sent
refreshAccessTokenFinish_NoFallback(w, sent, out, data) ==
    IF out = "200"
    THEN [w EXCEPT !.access = data[1], !.refresh = data[2]]
    ELSE w

\* refreshAccessToken after its await: out is the outcome of the refresh
\* request, data = <<access, refresh>> the body of a 200 answer
refreshAccessTokenFinish(w, sent, out, data) ==
    IF out = "200"
    THEN setTokens(w, data[1], IF data[2] # NONE THEN data[2] ELSE sent)
    ELSE w

\* the first response of apiFetch
apiFetchFirst(w, root, k, out) ==
    IF out = "401" /\ getRefreshToken(w) # NONE
    THEN refreshStart(w, root, k)
    ELSE apiFetchReturn(w, root, k, out)

\* the refresh response arrives inside apiFetch
apiFetchRefreshed(w, root, k, out, data) ==
    LET sent == w.calls[root][k].captured
        w1 == refreshAccessTokenFinish(w, sent, out, data)
        w2 == [w1 EXCEPT !.lastRefresh =
                             [root |-> root, level |-> k, out |-> out, data |-> data,
                              sent |-> sent,
                              before |-> <<w.access, w.refresh>>,
                              after |-> <<w1.access, w1.refresh>>],
                         !.calls[root][k].refreshed =
                             IF out = "200" THEN "ok" ELSE "failed"]
    IN  IF out = "200"
        THEN [w2 EXCEPT !.calls[root][k].pc = "retry",
                        !.calls[root][k].rotated = data[2],
                        !.calls[root][k].nRetry = @ + 1]
        ELSE apiFetchReturn(logout(w2, root, k), root, k, "401")

\* mutant: a 401 on the retry logs out
apiFetchRetried_LogoutOn401(w, root, k, out) ==
    IF out = "401"
    THEN apiFetchReturn(logout(w, root, k), root, k, out)
    ELSE apiFetchReturn(w, root, k, out)

\* the response of the retried request
apiFetchRetried(w, root, k, out) == apiFetchReturn(w, root, k, out)

Install(w) ==
    /\ access' = w.access
    /\ refresh' = w.refresh
    /\ user' = w.user
    /\ authUI' = w.authUI
    /\ calls' = w.calls
    /\ signals' = w.signals
    /\ lastReturn' = w.lastReturn
    /\ lastRefresh' = w.lastRefresh

\* DOMContentLoaded with an empty storage, or with a stored session
AuthInit ==
    /\ \E loggedIn \in BOOLEAN, u \in {NONE, "u"} :
         LET w0 == [access |-> IF loggedIn THEN OldToken ELSE NONE,
                    refresh |-> IF loggedIn THEN OldToken ELSE NONE,
                    user |-> IF loggedIn THEN u ELSE NONE,
                    authUI |-> "empty",
                    calls |-> [r \in Roots |-> <<>>],
                    signals |-> 0,
                    lastReturn |-> NoReturn, lastRefresh |-> NoRefresh]
             w1 == IF isLoggedIn(w0) THEN apiFetchStart(w0, "me", 1)
                   ELSE renderAuthSection(w0)
         IN  /\ access = w1.access
             /\ refresh = w1.refresh
             /\ user = w1.user
             /\ authUI = w1.authUI
             /\ calls = w1.calls
             /\ signals = w1.signals
             /\ lastReturn = w1.lastReturn
             /\ lastRefresh = w1.lastRefresh
             /\ nRoots = IF loggedIn THEN 1 ELSE 0
    /\ denied = TRUE

\* click on an interaction button of the detail panel: handleInteraction
\* up to its await
ClickInteraction ==
    /\ isLoggedIn(World)
    /\ nRoots < MaxRoots
    /\ nRoots' = nRoots + 1
    /\ Install(apiFetchStart(World, "api", nRoots + 1))
    /\ UNCHANGED <<denied, eventVars, uiVars>>

\* click on #btn-logout
ClickLogout ==
    /\ authUI = "user"
    /\ nRoots < MaxRoots
    /\ nRoots' = nRoots + 1
    /\ Install(logout(World, nRoots + 1, 0))
    /\ UNCHANGED <<denied, eventVars, uiVars>>

FirstResponse ==
    \E root \in Roots : \E k \in DOMAIN calls[root], out \in Outcomes :
        /\ calls[root][k].pc = "first"
        /\ Install(apiFetchFirst(World, root, k, out))
        /\ denied' = (denied /\ out = "401")
        /\ UNCHANGED <<nRoots, eventVars, uiVars>>

RefreshResponse ==
    \E root \in Roots : \E k \in DOMAIN calls[root], out \in Outcomes, r \in {NewToken, NONE} :
        /\ calls[root][k].pc = "refresh"
        /\ Install(apiFetchRefreshed(World, root, k, out,
                                     IF out = "200" THEN <<NewToken, r>> ELSE <<NONE, NONE>>))
        /\ denied' = (denied /\ out # "200")
        /\ UNCHANGED <<nRoots, eventVars, uiVars>>

RetryResponse ==
    \E root \in Roots : \E k \in DOMAIN calls[root], out \in Outcomes :
        /\ calls[root][k].pc = "retry"
        /\ Install(apiFetchRetried(World, root, k, out))
        /\ denied' = (denied /\ out = "401")
        /\ UNCHANGED <<nRoots, eventVars, uiVars>>

\* ------------------------------------------------------------------------
\* events.js, filters.js, pins.js, map.js
\* ------------------------------------------------------------------------
\* the category checkboxes in document order (renderCategoryFilters)
CategoryOrder == <<"music", "sports", "food">>

Slugs == {CategoryOrder[i] : i \in DOMAIN CategoryOrder}

\* the date buttons' data-date-filter values
DateButtons == {"today", "weekend", "week"}

\* a value of <input type="date">
CustomDates == {"2026-11-07"}

\* values of #search-input, and String.prototype.trim on them
SearchInputs == {"", "rock", " rock ", "  "}

trim(text) ==
    CASE text = " rock " -> "rock"
      [] text = "  "     -> ""
      [] OTHER           -> text

NoFilters ==
    [categories |-> <<>>, dateFilter |-> NONE, isFree |-> FALSE, searchQ |-> ""]

\* [...container.querySelectorAll(".category-checkbox:checked")].map(el => el.value)
checkedValues(S) == SelectSeq(CategoryOrder, LAMBDA s : s \in S)

\* --- the category property of a feature, as it arrives -------------------
\* an object, the JSON text of an object, a string that is no JSON, or null
CatObject(slug) == [t |-> "object", slug |-> slug]
CatJson(slug) == [t |-> "json", slug |-> slug]
CatText(slug) == [t |-> "text", slug |-> slug]
CatNull == [t |-> "null", slug |-> NONE]

\* further strings: the JSON text of a string that is no JSON, the JSON
\* text of a string that is the JSON text of an object, the text null, and
\* the empty string
CatJsonOfText(slug) == [t |-> "json-text", slug |-> slug]
CatJsonOfJson(slug) == [t |-> "json-json", slug |-> slug]
CatNullText == [t |-> "json-null", slug |-> NONE]
CatEmpty == [t |-> "empty", slug |-> NONE]

\* pins.js safeParse: JSON.parse of a string, the value itself when it is
\* no string or no JSON
safeParse(val) ==
    CASE val.t = "null"      -> val
      [] val.t = "object"    -> val
      [] val.t = "json"      -> CatObject(val.slug)
      [] val.t = "json-text" -> CatText(val.slug)
      [] val.t = "json-json" -> CatJson(val.slug)
      [] val.t = "json-null" -> CatNull
      [] OTHER               -> val

\* pins.js normaliseProps, the category field: safeParse(p.category) || {},
\* where null and the empty string are falsy
normaliseProps(raw) ==
    LET parsed == safeParse(raw.category) IN
    [raw EXCEPT !.category = IF parsed.t \in {"null", "empty"}
                             THEN CatObject(NONE) ELSE parsed]

\* cat?.slug: a string has no slug property
slugOf(cat) == IF cat.t = "object" THEN cat.slug ELSE NONE

\* the events the backend can answer with: the primary key is the
\* feature's id, properties.id is 0 where the properties carry none, going
\* is the count of interaction_counts
Pool ==
    << [id |-> 1, properties |-> [id |-> 0, going |-> 0, category |-> CatObject("music")],
        coords |-> TRUE],
       [id |-> 2, properties |-> [id |-> 0, going |-> 0, category |-> CatJson("sports")],
        coords |-> TRUE],
       [id |-> 3, properties |-> [id |-> 3, going |-> 0, category |-> CatObject("food")],
        coords |-> TRUE],
       [id |-> 4, properties |-> [id |-> 0, going |-> 0, category |-> CatText("music")],
        coords |-> FALSE],
       [id |-> 5, properties |-> [id |-> 0, going |-> 0, category |-> CatNull],
        coords |-> TRUE] >>

\* which of the pool's events the backend's answers hold
ResponseIds == {{}, {1, 2, 3}, {2, 4, 5}, {1, 4}, {3, 5}}

\* the feature lists of the backend's answers, in the pool's order
Responses == {SelectSeq(Pool, LAMBDA f : f.id \in S) : S \in ResponseIds}

\* --- fetchEvents: the query ----------------------------------------------
\* a parameter value: a text, or the date text of a day number
TextValue(text) == [text |-> text, day |-> 0]
DateValue(day) == [text |-> "date", day |-> day]

\* URLSearchParams.set
paramsSet(params, key, value) ==
    IF \E i \in DOMAIN params : params[i].key = key
    THEN [i \in DOMAIN params |->
            IF params[i].key = key THEN [key |-> key, value |-> value] ELSE params[i]]
    ELSE Append(params, [key |-> key, value |-> value])

hasParam(params, key) == \E i \in DOMAIN params : params[i].key = key

paramValue(params, key) ==
    params[CHOOSE i \in DOMAIN params : params[i].key = key].value

\* Date.prototype.getDay in local time; day 0 of the epoch is a Thursday
getDay(c) == (c.day + 4) % 7

\* toISOString().split("T")[0] of the local day `day` at the clock's local
\* hour: the UTC calendar day of that instant
isoDate(c, day) == (day * 24 + c.hour - c.off) \div 24

\* mutant: the next Friday without "|| 7"
weekendOffset_NoSeven(day) == (5 - day + 7) % 7

\* (5 - day + 7) % 7 || 7
weekendOffset(day) ==
    LET m == (5 - day + 7) % 7 IN IF m = 0 THEN 7 ELSE m

\* mutant: the category parameter for any non-empty selection
categoryParams_AnySelection(f) ==
    IF Len(f.categories) >= 1
    THEN paramsSet(<<>>, "category", TextValue(f.categories[1]))
    ELSE <<>>

\* events.js:27-29
categoryParams(f) ==
    IF Len(f.categories) = 1
    THEN paramsSet(<<>>, "category", TextValue(f.categories[1]))
    ELSE <<>>

\* events.js:37-57: start_date and end_date
dateParams(params, f, c) ==
    CASE f.dateFilter = "today" ->
            paramsSet(paramsSet(params, "start_date", DateValue(isoDate(c, c.day))),
                      "end_date", DateValue(isoDate(c, c.day)))
      [] f.dateFilter = "weekend" ->
            LET fri == c.day + weekendOffset(getDay(c))
                sun == fri + 2
            IN  paramsSet(paramsSet(params, "start_date", DateValue(isoDate(c, fri))),
                          "end_date", DateValue(isoDate(c, sun)))
      [] f.dateFilter = "week" ->
            paramsSet(paramsSet(params, "start_date", DateValue(isoDate(c, c.day))),
                      "end_date", DateValue(isoDate(c, c.day + 7)))
      [] f.dateFilter # NONE ->
            paramsSet(paramsSet(params, "start_date", TextValue(f.dateFilter)),
                      "end_date", TextValue(f.dateFilter))
      [] OTHER -> params

\* events.js:25-59: the URL of the request
fetchEventsUrl(f, c) ==
    LET p1 == categoryParams(f)
        p2 == IF f.isFree THEN paramsSet(p1, "is_free", TextValue("true")) ELSE p1
        p3 == IF f.searchQ # "" THEN paramsSet(p2, "q", TextValue(f.searchQ)) ELSE p2
        p4 == dateParams(p3, f, c)
    IN  [path |-> "/api/events/", mark |-> IF p4 # <<>> THEN "?" ELSE "", query |-> p4]

\* --- loadAndRenderEvents --------------------------------------------------
NoRender ==
    [id |-> 0, kind |-> NONE, sent |-> <<>>, response |-> <<>>,
     categories |-> <<>>, toast |-> FALSE]

\* no request was sent in this step
NoUrl == [path |-> NONE, mark |-> "", query |-> <<>>]

\* fetchEvents up to its await: the request in flight, with the categories
\* selected when it was sent
fetchEventsStart(f, id) == [id |-> id, categories |-> f.categories]

\* mutant: a failed request is answered with no features and no toast
fetchEventsFinish_Silent(out) ==
    IF out.kind = "ok"
    THEN [features |-> out.features, toast |-> FALSE]
    ELSE [features |-> <<>>, toast |-> FALSE]

\* fetchEvents after its await: the FeatureCollection's features; an error
\* toast and no features when the status is no success or the request was
\* rejected
fetchEventsFinish(out) ==
    IF out.kind = "ok"
    THEN [features |-> out.features, toast |-> FALSE]
    ELSE [features |-> <<>>, toast |-> TRUE]

\* mutant: the raw category is used, without normaliseProps
clientFilter_Raw(features, f) ==
    IF Len(f.categories) > 1
    THEN SelectSeq(features,
                   LAMBDA x :
                      LET cat == x.properties.category IN
                      \E i \in DOMAIN f.categories : f.categories[i] = slugOf(cat))
    ELSE features

\* events.js:78-86: the client-side multi-category filter
clientFilter(features, f) ==
    IF Len(f.categories) > 1
    THEN SelectSeq(features,
                   LAMBDA x :
                      LET cat == normaliseProps(x.properties).category IN
                      \E i \in DOMAIN f.categories : f.categories[i] = slugOf(cat))
    ELSE features

\* mutant: the properties are normalised, the feature's id is not looked at
markerProps_NoOverlay(feature) == normaliseProps(feature.properties)

\* pins.js:68-75: the normalised properties, with the feature's id where
\* they have none
markerProps(feature) ==
    LET props == normaliseProps(feature.properties) IN
    [props EXCEPT !.id = IF props.id = 0 THEN feature.id ELSE props.id]

\* mutant: a marker for every feature
renderPins_All(features) ==
    [i \in DOMAIN features |->
        [id |-> features[i].id, eventData |-> markerProps(features[i])]]

\* pins.js renderPins: one marker per feature that has coordinates
renderPins(features) ==
    LET located == SelectSeq(features, LAMBDA x : x.coords) IN
    [i \in DOMAIN located |->
        [id |-> located[i].id, eventData |-> markerProps(located[i])]]

\* no Marker object exists
NoMarkers == [onMap |-> {}, held |-> {}]

\* the Marker objects the loop of renderPins creates in its call-th run
newMarkers(features, call) ==
    {[render |-> call, id |-> features[i].id] :
        i \in {j \in DOMAIN features : features[j].coords}}

\* mutant: the old markers are forgotten but stay on the map
renderPinsOnMap_KeepOld(mm, features, call) ==
    [onMap |-> mm.onMap \cup newMarkers(features, call),
     held |-> newMarkers(features, call)]

\* pins.js:57-101 on the Marker objects: marker.remove() for every entry of
\* activeMarkers, the array emptied, then a new Marker added to the map and
\* pushed for every feature with coordinates
renderPinsOnMap(mm, features, call) ==
    [onMap |-> (mm.onMap \ mm.held) \cup newMarkers(features, call),
     held |-> newMarkers(features, call)]

\* mutant: the URL is built from the Filter State before the handler ran
LoadStart_Stale(f) ==
    /\ nFetches < MaxFetches
    /\ nFetches' = nFetches + 1
    /\ requests' = requests \cup {fetchEventsStart(f, nFetches + 1)}
    /\ lastUrl' = fetchEventsUrl(filters, clock)
    /\ lastRender' = NoRender
    /\ UNCHANGED <<clock, mapSource, activeMarkers, mapMarkers>>

\* a handler's call of loadAndRenderEvents, up to the await in fetchEvents
LoadStart(f) ==
    /\ nFetches < MaxFetches
    /\ nFetches' = nFetches + 1
    /\ requests' = requests \cup {fetchEventsStart(f, nFetches + 1)}
    /\ lastUrl' = fetchEventsUrl(f, clock)
    /\ lastRender' = NoRender
    /\ UNCHANGED <<clock, mapSource, activeMarkers, mapMarkers>>

\* change of a category checkbox
ChangeCategory ==
    \E s \in Slugs :
        LET now == {filters.categories[i] : i \in DOMAIN filters.categories}
            checked == IF s \in now THEN now \ {s} ELSE now \cup {s}
        IN  /\ filters' = [filters EXCEPT !.categories = checkedValues(checked)]
            /\ LoadStart(filters')
            /\ UNCHANGED <<dateUI, search, authVars, uiVars>>

\* mutant: the other buttons keep their class
onDateButtonClick_NoReset(ui, f, b) ==
    IF b \in ui.active
    THEN [ui |-> [active |-> ui.active \ {b}, custom |-> ""],
          filters |-> [f EXCEPT !.dateFilter = NONE]]
    ELSE [ui |-> [active |-> ui.active \cup {b}, custom |-> ""],
          filters |-> [f EXCEPT !.dateFilter = b]]

\* filters.js:76-90: the click handler of a date button, up to its
\* call of loadAndRenderEvents
onDateButtonClick(ui, f, b) ==
    LET reset == [active |-> {}, custom |-> ""] IN
    IF b \in ui.active
    THEN [ui |-> reset, filters |-> [f EXCEPT !.dateFilter = NONE]]
    ELSE [ui |-> [reset EXCEPT !.active = {b}],
          filters |-> [f EXCEPT !.dateFilter = b]]

\* click on a date button
ClickDateButton ==
    \E b \in DateButtons :
        /\ LET click == onDateButtonClick(dateUI, filters, b) IN
            /\ dateUI' = click.ui
            /\ filters' = click.filters
        /\ LoadStart(filters')
        /\ UNCHANGED <<search, authVars, uiVars>>

\* change of #custom-date
ChangeCustomDate ==
    \E val \in CustomDates \cup {""} :
        /\ val # dateUI.custom
        /\ dateUI' = [active |-> {}, custom |-> val]
        /\ filters' = [filters EXCEPT !.dateFilter = IF val # "" THEN val ELSE NONE]
        /\ LoadStart(filters')
        /\ UNCHANGED <<search, authVars, uiVars>>

\* change of #toggle-free
ChangeFree ==
    /\ filters' = [filters EXCEPT !.isFree = ~@]
    /\ LoadStart(filters')
    /\ UNCHANGED <<dateUI, search, authVars, uiVars>>

\* mutant: no debounce, every input updates the filter and fetches
onSearchInput_NoDebounce(s, f, text) ==
    [search |-> [input |-> text, timer |-> FALSE],
     filters |-> [f EXCEPT !.searchQ = trim(text)], load |-> TRUE]

\* part_000:120-125: the input listener: clearTimeout, then setTimeout
onSearchInput(s, f, text) ==
    [search |-> [input |-> text, timer |-> TRUE], filters |-> f, load |-> FALSE]

\* input in #search-input: the pending timer is replaced
InputSearch ==
    \E text \in SearchInputs :
        LET on == onSearchInput(search, filters, text) IN
        /\ text # search.input
        /\ nFetches < MaxFetches
        /\ search' = on.search
        /\ filters' = on.filters
        /\ IF on.load
           THEN LoadStart(filters')
           ELSE /\ lastUrl' = NoUrl
                /\ lastRender' = NoRender
                /\ UNCHANGED <<clock, requests, nFetches, mapSource,
                               activeMarkers, mapMarkers>>
        /\ UNCHANGED <<dateUI, authVars, uiVars>>

\* the debounce timer fires
SearchTimer ==
    /\ search.timer
    /\ search' = [search EXCEPT !.timer = FALSE]
    /\ filters' = [filters EXCEPT !.searchQ = trim(search.input)]
    /\ LoadStart(filters')
    /\ UNCHANGED <<dateUI, authVars, uiVars>>

\* the requests that were answered already
Applied == (1..nFetches) \ {req.id : req \in requests}

\* the runs of renderPins so far
Renders == Cardinality(Applied)

\* mutant: the answer of a request is dropped when a later request's answer
\* was applied already
Render_LatestOnly(req, out) ==
    LET geojson == fetchEventsFinish(out)
        features == clientFilter(geojson.features, filters)
        stale == \E j \in Applied : j > req.id
    IN
    /\ requests' = requests \ {req}
    /\ mapSource' = IF stale THEN mapSource ELSE features
    /\ activeMarkers' = IF stale THEN activeMarkers ELSE renderPins(features)
    /\ mapMarkers' = IF stale THEN mapMarkers
                      ELSE renderPinsOnMap(mapMarkers, features, Renders + 1)
    /\ lastRender' = IF stale THEN NoRender
                      ELSE [id |-> req.id, kind |-> out.kind, sent |-> req.categories,
                            response |-> geojson.features,
                            categories |-> filters.categories, toast |-> geojson.toast]
    /\ lastUrl' = NoUrl
    /\ UNCHANGED <<filters, clock, dateUI, search, nFetches>>

\* loadAndRenderEvents after its await
Render(req, out) ==
    LET geojson == fetchEventsFinish(out)
        features == clientFilter(geojson.features, filters)
    IN
    /\ requests' = requests \ {req}
    /\ mapSource' = features
    /\ activeMarkers' = renderPins(features)
    /\ mapMarkers' = renderPinsOnMap(mapMarkers, features, Renders + 1)
    /\ lastRender' = [id |-> req.id, kind |-> out.kind, sent |-> req.categories,
                      response |-> geojson.features,
                      categories |-> filters.categories, toast |-> geojson.toast]
    /\ lastUrl' = NoUrl
    /\ UNCHANGED <<filters, clock, dateUI, search, nFetches>>

\* a fetchEvents request is answered with a FeatureCollection
FetchAnswered ==
    \E req \in requests : \E features \in Responses :
        /\ Render(req, [kind |-> "ok", features |-> features])
        /\ UNCHANGED <<authVars, uiVars>>

\* a fetchEvents request is answered with an error status, or rejected
FetchFailed ==
    \E req \in requests : \E kind \in {"status", "neterr"} :
        /\ Render(req, [kind |-> kind, features |-> <<>>])
        /\ UNCHANGED <<authVars, uiVars>>

\* the session while nothing of auth.js runs
AuthIdle ==
    /\ access = NONE /\ refresh = NONE /\ user = NONE
    /\ authUI = "login"
    /\ calls = [r \in Roots |-> <<>>]
    /\ nRoots = 0 /\ signals = 0 /\ denied = TRUE
    /\ lastReturn = NoReturn /\ lastRefresh = NoRefresh

\* no properties: openEventDetail was not called, nothing was rendered
NoProps == [id |-> 0, going |-> 0, category |-> CatNull]

\* the creation form as the page loads it
NoCreate ==
    [pc |-> "idle", reload |-> 0, id |-> 0, coords |-> FALSE, tags |-> <<>>]

\* the draft as the page loads it
EmptyDraft ==
    [lat |-> "", lng |-> "", tags |-> <<>>, preview |-> FALSE, reading |-> FALSE,
     marker |-> FALSE]

\* no #auth-modal-overlay was created yet
NoAuthModal ==
    [open |-> FALSE, mode |-> "login", disabled |-> FALSE, error |-> FALSE,
     pc |-> "idle", root |-> 0]

\* the detail panel and the creation modal while nobody touches them
UiIdle ==
    /\ detail = [open |-> FALSE, p |-> NoProps]
    /\ viewport = 0
    /\ modal = FALSE
    /\ draft = EmptyDraft
    /\ form = [disabled |-> FALSE, locationError |-> FALSE, globalError |-> FALSE]
    /\ creates = [r \in Roots |-> NoCreate]
    /\ authModal = NoAuthModal
    /\ lastOpen = [called |-> FALSE, p |-> NoProps]
    /\ lastToast = NONE

\* the pipeline while nothing of events.js runs
EventsIdle ==
    /\ filters = NoFilters
    /\ clock = [day |-> 7, hour |-> 12, off |-> 0]
    /\ dateUI = [active |-> {}, custom |-> ""]
    /\ search = [input |-> "", timer |-> FALSE]
    /\ requests = {}
    /\ nFetches = 0
    /\ mapSource = <<>>
    /\ activeMarkers = <<>>
    /\ mapMarkers = NoMarkers
    /\ lastUrl = NoUrl
    /\ lastRender = NoRender

\* bootstrap after the filter controls are initialised: its own
\* loadAndRenderEvents is in flight
EventsInit ==
    /\ filters = NoFilters
    /\ clock = [day |-> 7, hour |-> 12, off |-> 0]
    /\ dateUI = [active |-> {}, custom |-> ""]
    /\ search = [input |-> "", timer |-> FALSE]
    /\ requests = {fetchEventsStart(NoFilters, 1)}
    /\ nFetches = 1
    /\ mapSource = <<>>
    /\ activeMarkers = <<>>
    /\ mapMarkers = NoMarkers
    /\ lastUrl = NoUrl
    /\ lastRender = NoRender

EventsNext ==
    \/ ChangeCategory
    \/ ClickDateButton
    \/ ChangeCustomDate
    \/ ChangeFree
    \/ InputSearch
    \/ SearchTimer
    \/ FetchAnswered
    \/ FetchFailed

\* the event pipeline alone: nobody is logged in, auth.js stays idle
EventsStart == EventsInit /\ AuthIdle /\ UiIdle

EventsSpec == EventsStart /\ [][EventsNext]_vars

\* the category checkboxes while bootstrap, which has rendered them, awaits
\* the city (app.js step 7) and has not called loadAndRenderEvents itself
BootStart == EventsIdle /\ AuthIdle /\ UiIdle

BootNext ==
    \/ ChangeCategory
    \/ ChangeFree
    \/ FetchAnswered
    \/ FetchFailed

BootSpec == BootStart /\ [][BootNext]_vars

\* --- the query of fetchEvents for every filter state and every clock ------
\* the filter states the handlers can leave
FilterStates ==
    [categories : {checkedValues(S) : S \in SUBSET Slugs},
     dateFilter : {NONE} \cup DateButtons \cup CustomDates,
     isFree : BOOLEAN,
     searchQ : {trim(text) : text \in SearchInputs}]

\* one week of local days, every local hour, UTC offsets in whole hours
Clocks == [day : 7..13, hour : 0..23, off : (0 - MaxOffset)..MaxOffset]

QueryInit ==
    /\ \/ /\ filters \in FilterStates
          /\ clock = [day |-> 7, hour |-> 12, off |-> 0]
       \/ /\ filters \in {[NoFilters EXCEPT !.dateFilter = d] :
                            d \in DateButtons \cup CustomDates}
          /\ clock \in Clocks
    /\ dateUI = [active |-> IF filters.dateFilter \in DateButtons
                            THEN {filters.dateFilter} ELSE {},
                 custom |-> IF filters.dateFilter \in CustomDates
                            THEN filters.dateFilter ELSE ""]
    /\ search = [input |-> filters.searchQ, timer |-> FALSE]
    /\ requests = {}
    /\ nFetches = 0
    /\ mapSource = <<>>
    /\ activeMarkers = <<>>
    /\ mapMarkers = NoMarkers
    /\ lastUrl = NoUrl
    /\ lastRender = NoRender

\* fetchEvents up to its await, once
QueryFetch ==
    /\ nFetches = 0
    /\ nFetches' = 1
    /\ requests' = {fetchEventsStart(filters, 1)}
    /\ lastUrl' = fetchEventsUrl(filters, clock)
    /\ UNCHANGED <<filters, clock, dateUI, search, mapSource, activeMarkers,
                   mapMarkers, lastRender, authVars, uiVars>>

QueryNext == QueryFetch

QueryStart == QueryInit /\ AuthIdle /\ UiIdle

QuerySpec == QueryStart /\ [][QueryNext]_vars

\* --- the session manager's behaviours ----------------------------------------
AuthNext ==
    \/ ClickInteraction
    \/ ClickLogout
    \/ FirstResponse
    \/ RefreshResponse
    \/ RetryResponse

\* the session manager alone: the event pipeline stays idle
AuthStart == AuthInit /\ EventsIdle /\ UiIdle

AuthSpec == AuthStart /\ [][AuthNext]_vars

\* a request that was sent is answered or rejected in the end
Respond == FirstResponse \/ RefreshResponse \/ RetryResponse

AuthFairSpec == AuthSpec /\ WF_vars(Respond)

\* ------------------------------------------------------------------------
\* events.js: the detail panel and the interactions
\* ------------------------------------------------------------------------
NoOpen == [called |-> FALSE, p |-> NoProps]

\* events.js openEventDetail: nothing is shown when the normalised
\* properties have no id; coords is the event whose coordinates were given,
\* 0 when none were
openEventDetail(ui, rawData, coords) ==
    LET p == normaliseProps(rawData)
        called == [ui EXCEPT !.lastOpen = [called |-> TRUE, p |-> p]]
    IN  IF p.id = 0
        THEN called
        ELSE [called EXCEPT !.detail = [open |-> TRUE, p |-> p],
                            !.viewport = IF coords # 0 THEN coords ELSE @]

\* events.js closeEventDetail
closeEventDetail(ui) == [ui EXCEPT !.detail.open = FALSE]

\* the panel and the viewport, as one value the handlers transform
Screen == [detail |-> detail, viewport |-> viewport, lastOpen |-> NoOpen]

InstallScreen(ui) ==
    /\ detail' = ui.detail
    /\ viewport' = ui.viewport
    /\ lastOpen' = ui.lastOpen

\* a step in which nothing of auth.js runs
SessionQuiet == Install(World) /\ UNCHANGED <<nRoots, denied>>

\* a step in which loadAndRenderEvents neither starts nor continues
PipelineQuiet ==
    /\ lastUrl' = NoUrl
    /\ lastRender' = NoRender
    /\ UNCHANGED <<filters, clock, dateUI, search, requests, nFetches, mapSource,
                   activeMarkers, mapMarkers>>

\* a step that leaves the panel and the viewport alone
ScreenQuiet == InstallScreen(Screen)

\* pin:clicked from a marker: its normalised properties and coordinates
ClickMarker ==
    \E i \in DOMAIN activeMarkers :
        /\ InstallScreen(openEventDetail(Screen, activeMarkers[i].eventData,
                                         activeMarkers[i].id))
        /\ lastToast' = NONE
        /\ SessionQuiet
        /\ PipelineQuiet
        /\ UNCHANGED <<modal, draft, form, creates, authModal>>

\* map.js onPinClick: a click on the invisible layer reports the feature's
\* own properties and its coordinates
ClickLayer ==
    \E i \in DOMAIN mapSource :
        /\ mapSource[i].coords
        /\ InstallScreen(openEventDetail(Screen, mapSource[i].properties,
                                         mapSource[i].id))
        /\ lastToast' = NONE
        /\ SessionQuiet
        /\ PipelineQuiet
        /\ UNCHANGED <<modal, draft, form, creates, authModal>>

\* click on #btn-close-detail
CloseDetail ==
    /\ detail.open
    /\ InstallScreen(closeEventDetail(Screen))
    /\ lastToast' = NONE
    /\ SessionQuiet
    /\ PipelineQuiet
    /\ UNCHANGED <<modal, draft, form, creates, authModal>>

\* mutant: the click handler does not look at the session
onInteractionClick_NoLoginCheck(w, id, root) ==
    IF id = 0
    THEN [w |-> w, toast |-> "invalid-id", sent |-> FALSE]
    ELSE [w |-> apiFetchStart(w, "interact", root), toast |-> NONE, sent |-> TRUE]

\* events.js:229-241 and handleInteraction up to its await: id is the
\* button's data-event-id
onInteractionClick(w, id, root) ==
    IF ~isLoggedIn(w)
    THEN [w |-> w, toast |-> "login-prompt", sent |-> FALSE]
    ELSE IF id = 0
         THEN [w |-> w, toast |-> "invalid-id", sent |-> FALSE]
         ELSE [w |-> apiFetchStart(w, "interact", root), toast |-> NONE,
               sent |-> TRUE]

\* click on an interaction button of the panel's content
ClickInteractionButton ==
    /\ detail.open
    /\ detail.p # NoProps
    /\ LET click == onInteractionClick(World, detail.p.id, nRoots + 1) IN
        /\ click.sent => nRoots < MaxRoots
        /\ nRoots' = IF click.sent THEN nRoots + 1 ELSE nRoots
        /\ Install(click.w)
        /\ lastToast' = click.toast
    /\ ScreenQuiet
    /\ PipelineQuiet
    /\ UNCHANGED <<denied, modal, draft, form, creates, authModal>>

\* mutant: a successful interaction raises the count the panel shows
handleInteractionFinish_LocalCount(ui, res) ==
    IF res = "200"
    THEN [ui EXCEPT !.detail.p.going = @ + 1]
    ELSE ui

\* handleInteraction after its await: only a toast is shown
handleInteractionFinish(ui, res) == ui

\* events.js:276-288: the toast of handleInteraction; none when apiFetch threw
interactionToast(res) ==
    CASE res = "200"    -> "interaction-done"
      [] res = "neterr" -> NONE
      [] OTHER          -> "interaction-error"

\* n calls of loadAndRenderEvents in one step
LoadTimes(n) ==
    /\ nFetches + n <= MaxFetches
    /\ nFetches' = nFetches + n
    /\ requests' = requests \cup {fetchEventsStart(filters, nFetches + i) : i \in 1..n}
    /\ lastUrl' = IF n > 0 THEN fetchEventsUrl(filters, clock) ELSE NoUrl
    /\ lastRender' = NoRender
    /\ UNCHANGED <<filters, clock, dateUI, search, mapSource, activeMarkers,
                   mapMarkers>>

\* the step returned from the apiFetch of an interaction
InteractionReturned(w) ==
    /\ w.lastReturn.root # 0
    /\ w.lastReturn.level = 1
    /\ w.calls[w.lastReturn.root][1].url = "interact"

\* what the page does in a step in which a response of apiFetch leaves the
\* world w: handleInteraction continues when its apiFetch returned, and the
\* auth:logout listener of app.js reloads the events for every dispatch
DetailContinue(w) ==
    /\ Install(w)
    /\ UNCHANGED nRoots
    /\ LoadTimes(w.signals - signals)
    /\ IF InteractionReturned(w)
       THEN /\ InstallScreen(handleInteractionFinish(Screen, w.lastReturn.res))
            /\ lastToast' = interactionToast(w.lastReturn.res)
       ELSE /\ ScreenQuiet
            /\ lastToast' = NONE
    /\ UNCHANGED <<modal, draft, form, creates, authModal>>

DetailFirstResponse ==
    \E root \in Roots : \E k \in DOMAIN calls[root], out \in Outcomes :
        /\ calls[root][k].pc = "first"
        /\ DetailContinue(apiFetchFirst(World, root, k, out))
        /\ denied' = (denied /\ out = "401")

DetailRefreshResponse ==
    \E root \in Roots : \E k \in DOMAIN calls[root], out \in Outcomes, r \in {NewToken, NONE} :
        /\ calls[root][k].pc = "refresh"
        /\ DetailContinue(apiFetchRefreshed(World, root, k, out,
                             IF out = "200" THEN <<NewToken, r>> ELSE <<NONE, NONE>>))
        /\ denied' = (denied /\ out # "200")

DetailRetryResponse ==
    \E root \in Roots : \E k \in DOMAIN calls[root], out \in Outcomes :
        /\ calls[root][k].pc = "retry"
        /\ DetailContinue(apiFetchRetried(World, root, k, out))
        /\ denied' = (denied /\ out = "401")

\* the session once the page has loaded: nobody logged in, or a stored
\* session whose loadCurrentUser was answered
SessionSettled ==
    \E loggedIn \in BOOLEAN :
        /\ access = IF loggedIn THEN OldToken ELSE NONE
        /\ refresh = IF loggedIn THEN OldToken ELSE NONE
        /\ user = IF loggedIn THEN "u" ELSE NONE
        /\ authUI = IF loggedIn THEN "user" ELSE "login"
        /\ calls = [r \in Roots |->
                      IF loggedIn /\ r = 1
                      THEN <<[NewCall("me") EXCEPT !.pc = "done"]>> ELSE <<>>]
        /\ nRoots = IF loggedIn THEN 1 ELSE 0
        /\ signals = 0
        /\ denied = ~loggedIn
        /\ lastReturn = NoReturn
        /\ lastRefresh = NoRefresh

\* the pipeline once bootstrap's loadAndRenderEvents was answered with
\* events
EventsLoaded ==
    /\ filters = NoFilters
    /\ clock = [day |-> 7, hour |-> 12, off |-> 0]
    /\ dateUI = [active |-> {}, custom |-> ""]
    /\ search = [input |-> "", timer |-> FALSE]
    /\ requests = {}
    /\ nFetches = 1
    /\ mapSource \in Responses \ {<<>>}
    /\ activeMarkers = renderPins(mapSource)
    /\ mapMarkers = renderPinsOnMap(NoMarkers, mapSource, 1)
    /\ lastUrl = NoUrl
    /\ lastRender = NoRender

\* a fetchEvents request is answered while the panel is in use
DetailFetchAnswered ==
    \E req \in requests : \E features \in Responses :
        /\ Render(req, [kind |-> "ok", features |-> features])
        /\ SessionQuiet
        /\ ScreenQuiet
        /\ lastToast' = NONE
        /\ UNCHANGED <<modal, draft, form, creates, authModal>>

\* a fetchEvents request fails while the panel is in use
DetailFetchFailed ==
    \E req \in requests : \E kind \in {"status", "neterr"} :
        /\ Render(req, [kind |-> kind, features |-> <<>>])
        /\ SessionQuiet
        /\ ScreenQuiet
        /\ lastToast' = NONE
        /\ UNCHANGED <<modal, draft, form, creates, authModal>>

DetailStart == SessionSettled /\ EventsLoaded /\ UiIdle

DetailNext ==
    \/ ClickMarker
    \/ ClickLayer
    \/ CloseDetail
    \/ ClickInteractionButton
    \/ DetailFirstResponse
    \/ DetailRefreshResponse
    \/ DetailRetryResponse
    \/ DetailFetchAnswered
    \/ DetailFetchFailed

DetailSpec == DetailStart /\ [][DetailNext]_vars

\* ------------------------------------------------------------------------
\* normaliseProps on every kind of category value
\* ------------------------------------------------------------------------
\* the category values a feature's properties can arrive with
RawCategories ==
    {CatNull, CatNullText, CatEmpty}
        \cup {CatObject(s) : s \in Slugs} \cup {CatJson(s) : s \in Slugs}
        \cup {CatText(s) : s \in Slugs} \cup {CatJsonOfText(s) : s \in Slugs}
        \cup {CatJsonOfJson(s) : s \in Slugs}

\* one event with coordinates, its primary key at feature.id; its properties
\* carry no id, the same id or another one
RawFeatures ==
    {[id |-> 1, properties |-> [id |-> i, going |-> g, category |-> c],
      coords |-> TRUE] : i \in {0, 1, 2}, g \in {0, 1}, c \in RawCategories}

\* the page after bootstrap's load was answered with one such event
NormLoaded ==
    /\ filters = NoFilters
    /\ clock = [day |-> 7, hour |-> 12, off |-> 0]
    /\ dateUI = [active |-> {}, custom |-> ""]
    /\ search = [input |-> "", timer |-> FALSE]
    /\ requests = {}
    /\ nFetches = 1
    /\ \E feature \in RawFeatures : mapSource = <<feature>>
    /\ activeMarkers = renderPins(mapSource)
    /\ mapMarkers = renderPinsOnMap(NoMarkers, mapSource, 1)
    /\ lastUrl = NoUrl
    /\ lastRender = NoRender

NormStart == AuthIdle /\ NormLoaded /\ UiIdle

NormNext == ClickMarker \/ ClickLayer \/ CloseDetail

NormSpec == NormStart /\ [][NormNext]_vars

\* ------------------------------------------------------------------------
\* events.js: the creation modal and submitCreateEvent
\* ------------------------------------------------------------------------
\* mutant: the modal opens for anybody
onNewEventClick_NoLoginCheck(w, m) == [modal |-> TRUE, toast |-> NONE]

\* events.js:306-314: the click handler of #btn-new-event
onNewEventClick(w, m) ==
    IF ~isLoggedIn(w)
    THEN [modal |-> m, toast |-> "login-to-publish"]
    ELSE [modal |-> TRUE, toast |-> NONE]

\* click on #btn-new-event, which the open modal covers
ClickNewEvent ==
    /\ ~modal
    /\ LET click == onNewEventClick(World, modal) IN
        /\ modal' = click.modal
        /\ lastToast' = click.toast
    /\ SessionQuiet
    /\ PipelineQuiet
    /\ ScreenQuiet
    /\ UNCHANGED <<draft, form, creates, authModal>>

\* click on #btn-close-modal or on the backdrop
CloseModal ==
    /\ modal
    /\ modal' = FALSE
    /\ lastToast' = NONE
    /\ SessionQuiet
    /\ PipelineQuiet
    /\ ScreenQuiet
    /\ UNCHANGED <<draft, form, creates, authModal>>

\* setModalLocation: a click on the mini map, the browser's position or a
\* geocoded address
SelectLocation ==
    /\ modal
    /\ draft' = [draft EXCEPT !.lat = "lat", !.lng = "lng", !.marker = TRUE]
    /\ form' = [form EXCEPT !.locationError = FALSE]
    /\ lastToast' = NONE
    /\ SessionQuiet
    /\ PipelineQuiet
    /\ ScreenQuiet
    /\ UNCHANGED <<modal, creates, authModal>>

\* --- the tags --------------------------------------------------------------
\* events.js:352: the most tags tagSet takes
MaxTags == 5

\* what \\s matches, of the characters used here
Whitespace == {" ", "\t"}

\* values of #tag-input, character by character
TagInputs ==
    << <<"L", "i", "v", "e", " ", "M", "u", "s", "i", "c", " ">>,
       <<"l", "i", "v", "e", "-", "m", "u", "s", "i", "c">>,
       <<" ", " ">>,
       <<>>,
       <<"R", "o", "c", "k">>,
       <<"a", " ", " ", "b">>,
       <<"\t", "a", "\t", " ", "b">>,
       <<"j", "a", "z", "z">>,
       <<"p", "o", "p">>,
       <<"m", "p", "b">>,
       <<"r", "a", "p">> >>

RECURSIVE dropLeading(_)
dropLeading(text) ==
    IF text # <<>> /\ Head(text) \in Whitespace
    THEN dropLeading(Tail(text))
    ELSE text

RECURSIVE dropTrailing(_)
dropTrailing(text) ==
    IF text # <<>> /\ text[Len(text)] \in Whitespace
    THEN dropTrailing(SubSeq(text, 1, Len(text) - 1))
    ELSE text

\* String.prototype.trim
trimChars(text) == dropTrailing(dropLeading(text))

\* String.prototype.toLowerCase, on the letters used here
toLowerCase(text) ==
    [i \in DOMAIN text |->
        CASE text[i] = "L" -> "l"
          [] text[i] = "M" -> "m"
          [] text[i] = "R" -> "r"
          [] OTHER         -> text[i]]

\* replace(/\\s+/g, "-")
RECURSIVE replaceRuns(_)
replaceRuns(text) ==
    IF text = <<>> THEN <<>>
    ELSE IF Head(text) \in Whitespace
         THEN <<"-">> \o replaceRuns(dropLeading(Tail(text)))
         ELSE <<Head(text)>> \o replaceRuns(Tail(text))

\* mutant: the value is trimmed and stored as typed
normaliseTag_TrimOnly(val) == trimChars(val)

\* events.js:351
normaliseTag(val) == replaceRuns(toLowerCase(trimChars(val)))

\* Set.prototype.add on a set kept in insertion order
setAdd(tags, tag) ==
    IF \E i \in DOMAIN tags : tags[i] = tag THEN tags ELSE Append(tags, tag)

\* mutant: no limit
addTag_NoLimit(tags, val) ==
    LET tag == normaliseTag(val) IN
    IF tag # <<>> THEN setAdd(tags, tag) ELSE tags

\* events.js:350-357
addTag(tags, val) ==
    LET tag == normaliseTag(val) IN
    IF tag # <<>> /\ Len(tags) < MaxTags THEN setAdd(tags, tag) ELSE tags

\* a step of the creation form that runs nothing else of the page
FormStep ==
    /\ lastToast' = NONE
    /\ SessionQuiet
    /\ PipelineQuiet
    /\ ScreenQuiet

\* click on #btn-add-tag, or Enter in #tag-input, with the value val
AddTagInput(val) ==
    /\ modal
    /\ draft' = [draft EXCEPT !.tags = addTag(@, val)]
    /\ FormStep
    /\ UNCHANGED <<modal, form, creates, authModal>>

AddTag == \E k \in DOMAIN TagInputs : AddTagInput(TagInputs[k])

\* click on the button of a rendered tag
RemoveTag ==
    \E i \in DOMAIN draft.tags :
        /\ modal
        /\ draft' = [draft EXCEPT !.tags = SelectSeq(@, LAMBDA t : t # draft.tags[i])]
        /\ FormStep
        /\ UNCHANGED <<modal, form, creates, authModal>>

\* mutant: the request is sent without looking at the location
submitCreateEvent_NoLocationCheck(w, d, f, root) ==
    [w |-> apiFetchStart(w, "create", root),
     form |-> [f EXCEPT !.disabled = TRUE, !.globalError = FALSE],
     sent |-> TRUE]

\* mutant: the submit button stays enabled while the request is under way
submitCreateEvent_NoDisable(w, d, f, root) ==
    LET f1 == [f EXCEPT !.globalError = FALSE] IN
    IF d.lat = "" \/ d.lng = ""
    THEN [w |-> w,
          form |-> [f1 EXCEPT !.locationError = TRUE, !.disabled = FALSE],
          sent |-> FALSE]
    ELSE [w |-> apiFetchStart(w, "create", root), form |-> f1, sent |-> TRUE]

\* events.js:501-540: submitCreateEvent up to its await
submitCreateEvent(w, d, f, root) ==
    LET f1 == [f EXCEPT !.disabled = TRUE, !.globalError = FALSE] IN
    IF d.lat = "" \/ d.lng = ""
    THEN [w |-> w,
          form |-> [f1 EXCEPT !.locationError = TRUE, !.disabled = FALSE],
          sent |-> FALSE]
    ELSE [w |-> apiFetchStart(w, "create", root), form |-> f1, sent |-> TRUE]

\* submit of #form-create-event, which a disabled submit button prevents
SubmitForm ==
    /\ modal
    /\ ~form.disabled
    /\ LET submit == submitCreateEvent(World, draft, form, nRoots + 1) IN
        /\ submit.sent => nRoots < MaxRoots
        /\ nRoots' = IF submit.sent THEN nRoots + 1 ELSE nRoots
        /\ Install(submit.w)
        /\ form' = submit.form
        /\ creates' = IF submit.sent
                      THEN [creates EXCEPT ![nRoots + 1].pc = "posting"]
                      ELSE creates
    /\ lastToast' = NONE
    /\ PipelineQuiet
    /\ ScreenQuiet
    /\ UNCHANGED <<denied, modal, draft, authModal>>

\* the Feature a successful create answers with: an id no other event has,
\* with or without coordinates
Created(root) == [id : {Len(Pool) + root}, coords : BOOLEAN]

\* the page's modal, form and draft, as one value submitCreateEvent
\* transforms; load tells whether loadAndRenderEvents is called
Page ==
    [modal |-> modal, draft |-> draft, form |-> form, toast |-> NONE,
     load |-> FALSE, pc |-> "posting", id |-> 0, coords |-> FALSE]

\* mutant: the detail timer is armed without awaiting the reload
submitCreateEventResponse_NoAwait(pg, res, body, data) ==
    CASE res = "neterr" ->
            [pg EXCEPT !.toast = "create-failed", !.form.disabled = FALSE,
                       !.pc = "failed"]
      [] res = "200" ->
            [pg EXCEPT !.modal = FALSE, !.toast = "created", !.load = TRUE,
                       !.pc = "waiting", !.id = data.id, !.coords = data.coords]
      [] body = "json" ->
            [pg EXCEPT !.form.globalError = TRUE, !.form.disabled = FALSE,
                       !.pc = "failed"]
      [] OTHER ->
            [pg EXCEPT !.toast = "create-failed", !.form.disabled = FALSE,
                       !.pc = "failed"]

\* mutant: an error answer closes the modal
submitCreateEventResponse_CloseOnError(pg, res, body, data) ==
    CASE res = "neterr" ->
            [pg EXCEPT !.toast = "create-failed", !.form.disabled = FALSE,
                       !.pc = "failed"]
      [] res = "200" ->
            [pg EXCEPT !.modal = FALSE, !.toast = "created", !.load = TRUE,
                       !.pc = "reloading", !.id = data.id, !.coords = data.coords]
      [] body = "json" ->
            [pg EXCEPT !.modal = FALSE, !.form.globalError = TRUE,
                       !.form.disabled = FALSE, !.pc = "failed"]
      [] OTHER ->
            [pg EXCEPT !.toast = "create-failed", !.form.disabled = FALSE,
                       !.pc = "failed"]

\* events.js:540-548 and 573-587: submitCreateEvent from the return of its
\* apiFetch to the await of loadAndRenderEvents, or to its end; body tells
\* whether an error answer can be parsed as JSON
submitCreateEventResponse(pg, res, body, data) ==
    CASE res = "neterr" ->
            [pg EXCEPT !.toast = "create-failed", !.form.disabled = FALSE,
                       !.pc = "failed"]
      [] res = "200" ->
            [pg EXCEPT !.modal = FALSE, !.toast = "created", !.load = TRUE,
                       !.pc = "reloading", !.id = data.id, !.coords = data.coords]
      [] body = "json" ->
            [pg EXCEPT !.form.globalError = TRUE, !.form.disabled = FALSE,
                       !.pc = "failed"]
      [] OTHER ->
            [pg EXCEPT !.toast = "create-failed", !.form.disabled = FALSE,
                       !.pc = "failed"]

\* the step returned from the apiFetch of submitCreateEvent
CreateReturned(w) ==
    /\ w.lastReturn.root # 0
    /\ w.lastReturn.level = 1
    /\ w.calls[w.lastReturn.root][1].url = "create"

\* what the page does in a step in which a response of apiFetch leaves the
\* world w: submitCreateEvent continues when its apiFetch returned, and the
\* auth:logout listener of app.js reloads the events for every dispatch
CreateContinue(w) ==
    \E body \in {"json", "html"}, data \in Created(w.lastReturn.root) :
        LET pg == IF CreateReturned(w)
                  THEN submitCreateEventResponse(Page, w.lastReturn.res, body, data)
                  ELSE Page
            n == (w.signals - signals) + (IF pg.load THEN 1 ELSE 0)
        IN  /\ Install(w)
            /\ UNCHANGED nRoots
            /\ LoadTimes(n)
            /\ modal' = pg.modal
            /\ draft' = pg.draft
            /\ form' = pg.form
            /\ lastToast' = pg.toast
            /\ creates' = IF CreateReturned(w)
                          THEN [creates EXCEPT ![w.lastReturn.root] =
                                  [pc |-> pg.pc, id |-> pg.id, coords |-> pg.coords,
                                   reload |-> IF pg.load THEN nFetches + n ELSE 0,
                                   tags |-> IF pg.load THEN draft.tags ELSE <<>>]]
                          ELSE creates
            /\ ScreenQuiet
            /\ UNCHANGED authModal

CreateFirstResponse ==
    \E root \in Roots : \E k \in DOMAIN calls[root], out \in Outcomes :
        /\ calls[root][k].pc = "first"
        /\ CreateContinue(apiFetchFirst(World, root, k, out))
        /\ denied' = (denied /\ out = "401")

CreateRefreshResponse ==
    \E root \in Roots : \E k \in DOMAIN calls[root], out \in Outcomes, r \in {NewToken, NONE} :
        /\ calls[root][k].pc = "refresh"
        /\ CreateContinue(apiFetchRefreshed(World, root, k, out,
                             IF out = "200" THEN <<NewToken, r>> ELSE <<NONE, NONE>>))
        /\ denied' = (denied /\ out # "200")

CreateRetryResponse ==
    \E root \in Roots : \E k \in DOMAIN calls[root], out \in Outcomes :
        /\ calls[root][k].pc = "retry"
        /\ CreateContinue(apiFetchRetried(World, root, k, out))
        /\ denied' = (denied /\ out = "401")

\* mutant: the tags survive the reset
submitCreateEventFinish_KeepTags(ui, pg, c) ==
    [viewport |-> IF c.coords THEN c.id ELSE ui.viewport,
     draft |-> [EmptyDraft EXCEPT !.reading = pg.draft.reading,
                                  !.tags = pg.draft.tags],
     form |-> [pg.form EXCEPT !.disabled = FALSE],
     create |-> [c EXCEPT !.pc = "waiting", !.tags = <<>>]]

\* events.js:550-572 and 583-587: submitCreateEvent after its await of
\* loadAndRenderEvents: the flight, the timer, the reset of the draft
submitCreateEventFinish(ui, pg, c) ==
    [viewport |-> IF c.coords THEN c.id ELSE ui.viewport,
     draft |-> [EmptyDraft EXCEPT !.reading = pg.draft.reading],
     form |-> [pg.form EXCEPT !.disabled = FALSE],
     create |-> [c EXCEPT !.pc = "waiting", !.tags = <<>>]]

\* loadAndRenderEvents after its await, and the submitCreateEvent that
\* awaited it
RenderAndContinue(req, out) ==
    /\ Render(req, out)
    /\ SessionQuiet
    /\ lastToast' = NONE
    /\ detail' = detail
    /\ lastOpen' = NoOpen
    /\ modal' = modal
    /\ IF \E r \in Roots : creates[r].pc = "reloading" /\ creates[r].reload = req.id
       THEN LET r == CHOOSE r \in Roots :
                         creates[r].pc = "reloading" /\ creates[r].reload = req.id
                fin == submitCreateEventFinish(Screen, Page, creates[r])
            IN  /\ viewport' = fin.viewport
                /\ draft' = fin.draft
                /\ form' = fin.form
                /\ creates' = [creates EXCEPT ![r] = fin.create]
       ELSE UNCHANGED <<viewport, draft, form, creates>>
    /\ UNCHANGED authModal

CreateFetchAnswered ==
    \E req \in requests : \E features \in Responses :
        RenderAndContinue(req, [kind |-> "ok", features |-> features])

CreateFetchFailed ==
    \E req \in requests : \E kind \in {"status", "neterr"} :
        RenderAndContinue(req, [kind |-> kind, features |-> <<>>])

\* the properties submitCreateEvent hands to openEventDetail
createdProps(c) == [id |-> c.id, going |-> 0, category |-> CatObject("music")]

\* the timer of events.js:559 fires
DetailTimer ==
    \E r \in Roots :
        /\ creates[r].pc = "waiting"
        /\ InstallScreen(openEventDetail(Screen, createdProps(creates[r]),
                                         IF creates[r].coords THEN creates[r].id ELSE 0))
        /\ creates' = [creates EXCEPT ![r].pc = "done"]
        /\ lastToast' = NONE
        /\ SessionQuiet
        /\ PipelineQuiet
        /\ UNCHANGED <<modal, draft, form, authModal>>

\* change of #toggle-free, which the open modal covers, while a
\* submitCreateEvent awaits its reload
CreateChangeFree ==
    /\ ~modal
    /\ \E r \in Roots : creates[r].pc = "reloading"
    /\ filters' = [filters EXCEPT !.isFree = ~@]
    /\ LoadStart(filters')
    /\ UNCHANGED <<dateUI, search>>
    /\ SessionQuiet
    /\ ScreenQuiet
    /\ lastToast' = NONE
    /\ UNCHANGED <<modal, draft, form, creates, authModal>>

\* the events bootstrap's load was answered with
FirstLoad == SelectSeq(Pool, LAMBDA f : f.id \in {1, 2, 3})

\* the page when initCreateEventModal has run: the first load of bootstrap
\* has put events on the map
CreateStart ==
    /\ SessionSettled
    /\ EventsLoaded
    /\ mapSource = FirstLoad
    /\ UiIdle

CreateNext ==
    \/ ClickNewEvent
    \/ CloseModal
    \/ SelectLocation
    \/ SubmitForm
    \/ CreateFirstResponse
    \/ CreateRefreshResponse
    \/ CreateRetryResponse
    \/ CreateFetchAnswered
    \/ CreateFetchFailed
    \/ DetailTimer
    \/ CreateChangeFree

CreateSpec == CreateStart /\ [][CreateNext]_vars

\* change of #cover-image-input with a file chosen: a FileReader starts
ChangeCover ==
    /\ modal
    /\ draft' = [draft EXCEPT !.reading = TRUE]
    /\ FormStep
    /\ UNCHANGED <<modal, form, creates, authModal>>

\* the FileReader's onload: the preview shows the image
CoverLoaded ==
    /\ draft.reading
    /\ draft' = [draft EXCEPT !.reading = FALSE, !.preview = TRUE]
    /\ FormStep
    /\ UNCHANGED <<modal, form, creates, authModal>>

\* the tag live-music is added
AddLiveMusic == AddTagInput(TagInputs[1])

\* a reload is answered with the events of the first load
ReloadAnswered ==
    \E req \in requests :
        RenderAndContinue(req, [kind |-> "ok", features |-> FirstLoad])

\* the draft from the opening of the modal to the end of submitCreateEvent
DraftNext ==
    \/ ClickNewEvent
    \/ CloseModal
    \/ SelectLocation
    \/ AddLiveMusic
    \/ ChangeCover
    \/ CoverLoaded
    \/ SubmitForm
    \/ CreateFirstResponse
    \/ CreateRefreshResponse
    \/ CreateRetryResponse
    \/ ReloadAnswered
    \/ CreateFetchFailed
    \/ DetailTimer

DraftSpec == CreateStart /\ [][DraftNext]_vars

\* ------------------------------------------------------------------------
\* auth.js: the login modal
\* ------------------------------------------------------------------------
AuthModes == {"login", "register"}

\* showAuthModal: an attached overlay is removed, otherwise a new overlay
\* with a new form is attached
showAuthModal(am) ==
    IF am.open
    THEN [am EXCEPT !.open = FALSE]
    ELSE [NoAuthModal EXCEPT !.open = TRUE]

\* the submit handler up to its await
authSubmitStart(am) ==
    [am EXCEPT !.error = FALSE, !.disabled = TRUE, !.pc = "posting"]

\* login and register after their fetch: a success with a JSON body stores
\* the tokens and awaits loadCurrentUser
loginResponse(w, out, body, root) ==
    IF out = "200" /\ body = "json"
    THEN apiFetchStart(setTokens(w, OldToken, OldToken), "me", root)
    ELSE w

\* the submit handler when the fetch of login or register is answered: a
\* rejected fetch, or a body resp.json() cannot parse, throws out of the
\* handler; an error answer is shown and the button enabled
authSubmitResponse(am, out, body, root) ==
    CASE out = "neterr" \/ body # "json" -> [am EXCEPT !.pc = "thrown"]
      [] out = "200" -> [am EXCEPT !.pc = "loading", !.root = root]
      [] OTHER -> [am EXCEPT !.error = TRUE, !.disabled = FALSE, !.pc = "ended"]

\* the submit handler when the loadCurrentUser that login awaits has ended:
\* thrown when apiFetch threw, otherwise result.ok and the overlay is removed
authSubmitFinish(am, res) ==
    IF res = "neterr"
    THEN [am EXCEPT !.pc = "thrown"]
    ELSE [am EXCEPT !.open = FALSE, !.pc = "ended"]

\* a step of the login modal alone
AuthModalStep ==
    /\ lastToast' = NONE
    /\ SessionQuiet
    /\ PipelineQuiet
    /\ ScreenQuiet
    /\ UNCHANGED <<modal, draft, form, creates>>

\* click on #btn-open-login, which exists while nobody is logged in; not
\* while a submit of the attached form is under way
ClickOpenLogin ==
    /\ authUI = "login"
    /\ authModal.pc \notin {"posting", "loading"}
    /\ authModal' = showAuthModal(authModal)
    /\ AuthModalStep

\* click on #auth-modal-close or on the overlay
CloseAuthModal ==
    /\ authModal.open
    /\ authModal.pc \notin {"posting", "loading"}
    /\ authModal' = [authModal EXCEPT !.open = FALSE]
    /\ AuthModalStep

\* click on #tab-login or #tab-register
SetMode ==
    \E m \in AuthModes :
        /\ authModal.open
        /\ authModal.pc \notin {"posting", "loading"}
        /\ authModal' = [authModal EXCEPT !.mode = m]
        /\ AuthModalStep

\* submit of #auth-form, which a disabled submit button prevents
SubmitAuthForm ==
    /\ authModal.open
    /\ ~authModal.disabled
    /\ authModal' = authSubmitStart(authModal)
    /\ AuthModalStep

\* the fetch of login or register is answered or rejected
AuthResponse ==
    \E out \in Outcomes, body \in {"json", "html"} :
        LET started == out = "200" /\ body = "json" IN
        /\ authModal.pc = "posting"
        /\ out = "neterr" => body = "html"
        /\ started => nRoots < MaxRoots
        /\ nRoots' = IF started THEN nRoots + 1 ELSE nRoots
        /\ Install(loginResponse(World, out, body, nRoots + 1))
        /\ denied' = (denied /\ ~started)
        /\ authModal' = authSubmitResponse(authModal, out, body, nRoots + 1)
        /\ lastToast' = NONE
        /\ PipelineQuiet
        /\ ScreenQuiet
        /\ UNCHANGED <<modal, draft, form, creates>>

\* the step returned from the apiFetch of the loadCurrentUser that login
\* awaits
LoginReturned(w) ==
    /\ w.lastReturn.root # 0
    /\ w.lastReturn.level = 1
    /\ w.lastReturn.root = authModal.root
    /\ authModal.pc = "loading"

\* what the page does in a step in which a response of apiFetch leaves the
\* world w: the submit handler continues when login returned or threw, and
\* the auth:login and auth:logout listeners reload the events
LoginContinue(w) ==
    LET ok == LoginReturned(w) /\ w.lastReturn.res # "neterr" IN
    /\ Install(IF ok THEN renderAuthSection(w) ELSE w)
    /\ UNCHANGED nRoots
    /\ LoadTimes((w.signals - signals) + (IF ok THEN 1 ELSE 0))
    /\ authModal' = IF LoginReturned(w)
                    THEN authSubmitFinish(authModal, w.lastReturn.res)
                    ELSE authModal
    /\ lastToast' = IF ok THEN "welcome" ELSE NONE
    /\ ScreenQuiet
    /\ UNCHANGED <<modal, draft, form, creates>>

LoginFirstResponse ==
    \E root \in Roots : \E k \in DOMAIN calls[root], out \in Outcomes :
        /\ calls[root][k].pc = "first"
        /\ LoginContinue(apiFetchFirst(World, root, k, out))
        /\ denied' = (denied /\ out = "401")

LoginRefreshResponse ==
    \E root \in Roots : \E k \in DOMAIN calls[root], out \in Outcomes, r \in {NewToken, NONE} :
        /\ calls[root][k].pc = "refresh"
        /\ LoginContinue(apiFetchRefreshed(World, root, k, out,
                            IF out = "200" THEN <<NewToken, r>> ELSE <<NONE, NONE>>))
        /\ denied' = (denied /\ out # "200")

LoginRetryResponse ==
    \E root \in Roots : \E k \in DOMAIN calls[root], out \in Outcomes :
        /\ calls[root][k].pc = "retry"
        /\ LoginContinue(apiFetchRetried(World, root, k, out))
        /\ denied' = (denied /\ out = "401")

\* the page with nobody logged in
LoginStart == CreateStart /\ ~isLoggedIn(World)

LoginNext ==
    \/ ClickOpenLogin
    \/ CloseAuthModal
    \/ SetMode
    \/ SubmitAuthForm
    \/ AuthResponse
    \/ LoginFirstResponse
    \/ LoginRefreshResponse
    \/ LoginRetryResponse
    \/ ReloadAnswered
    \/ CreateFetchFailed

LoginSpec == LoginStart /\ [][LoginNext]_vars

\* the tags of the draft, for every sequence of additions and removals
TagNext ==
    \/ ClickNewEvent
    \/ CloseModal
    \/ AddTag
    \/ RemoveTag

TagSpec == CreateStart /\ [][TagNext]_vars

\* ------------------------------------------------------------------------
\* Session manager: properties
\* ------------------------------------------------------------------------
RECURSIVE SumRefresh(_)
SumRefresh(chain) ==
    IF chain = <<>> THEN 0 ELSE Head(chain).nRefresh + SumRefresh(Tail(chain))

RECURSIVE SumRetry(_)
SumRetry(chain) ==
    IF chain = <<>> THEN 0 ELSE Head(chain).nRetry + SumRetry(Tail(chain))

\* requests sent because of one user-level operation
Requests(chain) == Len(chain) + SumRefresh(chain) + SumRetry(chain)

SessionCleared == access = NONE /\ refresh = NONE /\ user = NONE

AllDone(chain) == \A k \in DOMAIN chain : chain[k].pc = "done"

\* C1: a call of apiFetch whose first attempt got 401 with a refresh token
\* stored causes exactly one request to the refresh endpoint, counting the
\* requests of the logout it starts, and re-sends the original request once
\* after a successful refresh and never after a failed one.
C1_ExactlyOneRefresh ==
    \A r \in Roots :
        (calls[r] # <<>> /\ calls[r][1].nRefresh >= 1) =>
            /\ SumRefresh(calls[r]) = 1
            /\ calls[r][1].nRetry <= 1
            /\ calls[r][1].refreshed = "ok" => calls[r][1].nRetry = 1
            /\ calls[r][1].refreshed = "failed" => calls[r][1].nRetry = 0

\* an activation's refresh failed and the logout it called has not finished
LogoutOwed ==
    \E r \in Roots : \E k \in DOMAIN calls[r] :
        calls[r][k].refreshed = "failed" /\ ~calls[r][k].loggedOut

\* a logout request is still awaiting its answer
LogoutPending ==
    \E r \in Roots : \E k \in DOMAIN calls[r] :
        calls[r][k].url = "logout" /\ calls[r][k].pc # "done"

\* C2: after a failed refresh inside apiFetch the logout it starts completes,
\* whatever the logout request is answered: the session ends up with no
\* access token, no refresh token and no user, and auth:logout dispatched.
C2_FailedRefreshLogsOut ==
    LogoutOwed ~> (~LogoutOwed /\ SessionCleared /\ signals > 0)

C2_Witness ==
    \E r \in Roots : \E k \in DOMAIN calls[r] :
        /\ calls[r][k].refreshed = "failed"
        /\ calls[r][k].loggedOut
        /\ lastReturn.root = r /\ lastReturn.level = k + 1
        /\ lastReturn.res = "500"
        /\ SessionCleared /\ signals > 0

\* C3: while every response is a 401 and every refresh fails, one user-level
\* operation causes at most three apiFetch activations and five requests,
\* and once all of them are answered the session is cleared.
C3_ChainTerminates ==
    denied =>
        \A r \in Roots :
            /\ Len(calls[r]) <= 3
            /\ Requests(calls[r]) <= 5
            /\ (calls[r] # <<>> /\ AllDone(calls[r])
                  /\ calls[r][1].refreshed = "failed") => SessionCleared

C3_Witness ==
    /\ denied
    /\ \E r \in Roots :
        /\ Len(calls[r]) = 3
        /\ Requests(calls[r]) = 5
        /\ AllDone(calls[r])
        /\ SessionCleared

\* C4 as claimed: when the retried request is answered 401 again, the session
\* is cleared.
C4_RetryUnauthorizedClearsSession ==
    \A r \in Roots : \A k \in DOMAIN calls[r] :
        (lastReturn.root = r /\ lastReturn.level = k /\ lastReturn.res = "401"
           /\ calls[r][k].refreshed = "ok") => SessionCleared

\* C4 amended: when the refresh succeeded and the retried request is answered
\* 401 again, apiFetch returns that 401 without a further refresh, retry or
\* logout, and leaves the session as it is (only a caller that is logout
\* itself clears it afterwards).
C4_RetryUnauthorizedReturned ==
    [][\A r \in Roots : \A k \in DOMAIN calls[r] :
          (calls[r][k].pc = "retry" /\ calls'[r][k].pc = "done"
             /\ lastReturn'.res = "401") =>
              /\ lastReturn'.root = r /\ lastReturn'.level = k
              /\ calls'[r][k].nRefresh = 1 /\ calls'[r][k].nRetry = 1
              /\ Len(calls'[r]) = Len(calls[r])
              /\ calls[r][k].url # "logout" =>
                    UNCHANGED <<access, refresh, user, signals>>]_vars

C4_Witness ==
    \E r \in Roots : \E k \in DOMAIN calls[r] :
        /\ lastReturn.root = r /\ lastReturn.level = k /\ lastReturn.res = "401"
        /\ calls[r][k].refreshed = "ok" /\ calls[r][k].url # "logout"
        /\ access = NewToken /\ refresh # NONE

\* C5: a successful refresh stores the new access token and the new refresh
\* token, or the refresh token it sent when the answer carries none; a
\* non-success answer or a network failure changes no stored token and
\* apiFetch goes on with a refresh result of false (nothing is thrown).
C5_RefreshStoresOrKeeps ==
    lastRefresh.root # 0 =>
        IF lastRefresh.out = "200"
        THEN /\ lastRefresh.after[1] = lastRefresh.data[1]
             /\ lastRefresh.after[2] = IF lastRefresh.data[2] # NONE
                                       THEN lastRefresh.data[2]
                                       ELSE lastRefresh.sent
             /\ calls[lastRefresh.root][lastRefresh.level].refreshed = "ok"
        ELSE /\ lastRefresh.after = lastRefresh.before
             /\ calls[lastRefresh.root][lastRefresh.level].refreshed = "failed"
             /\ lastReturn.root = lastRefresh.root
             /\ lastReturn.level = lastRefresh.level
             /\ lastReturn.res = "401"

C5_Witness ==
    /\ lastRefresh.out = "200"
    /\ lastRefresh.data[2] = NONE
    /\ lastRefresh.before = <<OldToken, OldToken>>
    /\ lastRefresh.after = <<NewToken, OldToken>>
    /\ refresh = OldToken /\ access = NewToken

C6_LogoutReturned ==
    \E r \in Roots : \E k \in DOMAIN calls[r] :
        /\ lastReturn.root = r /\ lastReturn.level = k
        /\ calls[r][k].url = "logout"

\* C6: every logout ends with the access token, the refresh token and the
\* user removed and auth:logout dispatched, whatever the logout request ended
\* with (a status or a network failure).
C6_LogoutAlwaysClears ==
    /\ [][signals' # signals =>
            (access' = NONE /\ refresh' = NONE /\ user' = NONE)]_vars
    /\ [][\A r \in Roots : \A k \in DOMAIN calls[r] :
            (calls[r][k].url = "logout" /\ calls[r][k].pc # "done"
               /\ calls'[r][k].pc = "done") => signals' > signals]_vars

C6_Witness ==
    /\ C6_LogoutReturned
    /\ lastReturn.res = "neterr"
    /\ SessionCleared
    /\ signals > 0

\* ------------------------------------------------------------------------
\* Event pipeline: properties
\* ------------------------------------------------------------------------
Selected(categories) == {categories[i] : i \in DOMAIN categories}

\* the slug of a feature's category once its properties are normalised
NormalisedSlug(feature) == slugOf(normaliseProps(feature.properties).category)

Ids(features) == [i \in DOMAIN features |-> features[i].id]

\* C7: a render with two or more categories selected shows exactly the
\* features of the response whose normalised category slug is selected, in
\* the response's order; with none or one selected it shows the response
\* unfiltered; the markers are those of the shown features that have
\* coordinates
C7_MultiCategoryFilter ==
    lastRender.id # 0 =>
        LET sel == Selected(lastRender.categories)
            expected == IF Cardinality(sel) >= 2
                        THEN SelectSeq(lastRender.response,
                                       LAMBDA x : NormalisedSlug(x) \in sel)
                        ELSE lastRender.response
        IN  /\ mapSource = expected
            /\ Ids(activeMarkers) = Ids(SelectSeq(expected, LAMBDA x : x.coords))

\* two categories selected, the response holds a feature of a selected
\* category that arrived as JSON text and is shown, and one that is dropped
C7_Witness ==
    /\ lastRender.id # 0
    /\ Len(lastRender.categories) = 2
    /\ \E i \in DOMAIN lastRender.response :
          /\ lastRender.response[i].properties.category.t = "json"
          /\ \E j \in DOMAIN mapSource : mapSource[j] = lastRender.response[i]
    /\ Len(mapSource) < Len(lastRender.response)

\* C8: the query has category iff exactly one category is selected (its
\* slug), is_free=true iff isFree, q iff searchQ is not empty (its text),
\* and the URL has no query string when no filter is active
C8_QueryParameters ==
    lastUrl # NoUrl =>
        LET url == lastUrl IN
        /\ hasParam(url.query, "category") <=> Len(filters.categories) = 1
        /\ hasParam(url.query, "category") =>
              paramValue(url.query, "category") = TextValue(filters.categories[1])
        /\ hasParam(url.query, "is_free") <=> filters.isFree
        /\ hasParam(url.query, "is_free") =>
              paramValue(url.query, "is_free") = TextValue("true")
        /\ hasParam(url.query, "q") <=> filters.searchQ # ""
        /\ hasParam(url.query, "q") =>
              paramValue(url.query, "q") = TextValue(filters.searchQ)
        /\ filters = NoFilters => url.mark = "" /\ url.query = <<>>
        /\ url.mark = "?" <=> url.query # <<>>

\* a request for two selected categories, free events and a search text:
\* no category parameter, is_free and q
C8_Witness ==
    /\ lastUrl # NoUrl
    /\ Len(filters.categories) = 2
    /\ filters.isFree
    /\ filters.searchQ = "rock"
    /\ ~hasParam(lastUrl.query, "category")
    /\ hasParam(lastUrl.query, "is_free")
    /\ hasParam(lastUrl.query, "q")

\* the first Friday strictly after the local day `day`
NextFriday(day) == CHOOSE d \in (day + 1)..(day + 7) : (d + 4) % 7 = 5

\* the step sent the request of the weekend filter
WeekendRequest == lastUrl # NoUrl /\ filters.dateFilter = "weekend"

\* C9: start_date of the weekend filter is the first Friday strictly after
\* today, never today or a past date, and end_date is two days later
C9_WeekendFirstFridayAfterToday ==
    WeekendRequest =>
        LET start == paramValue(lastUrl.query, "start_date").day
            end == paramValue(lastUrl.query, "end_date").day
        IN  /\ start = NextFriday(clock.day)
            /\ start > clock.day
            /\ end = start + 2

UtcDay(c, day) == CHOOSE u \in (day - 1)..(day + 1) :
                     u * 24 <= day * 24 + c.hour - c.off
                     /\ day * 24 + c.hour - c.off < (u + 1) * 24

C11_DateResolution ==
    lastUrl # NoUrl =>
        LET q == lastUrl.query IN
        /\ filters.dateFilter = "today" =>
              /\ paramValue(q, "start_date") = DateValue(clock.day)
              /\ paramValue(q, "end_date") = DateValue(clock.day)
        /\ filters.dateFilter = "week" =>
              /\ paramValue(q, "start_date") = DateValue(clock.day)
              /\ paramValue(q, "end_date") = DateValue(clock.day + 7)
        /\ filters.dateFilter \in CustomDates =>
              /\ paramValue(q, "start_date") = TextValue(filters.dateFilter)
              /\ paramValue(q, "end_date") = TextValue(filters.dateFilter)
        /\ filters.dateFilter = NONE =>
              ~hasParam(q, "start_date") /\ ~hasParam(q, "end_date")

\* C12: a request answered with an error status or rejected shows the error
\* toast, and the render that follows publishes an empty dataset and an
\* empty marker set
C12_FetchFailurePublishesEmpty ==
    (lastRender.id # 0 /\ lastRender.kind \in {"status", "neterr"}) =>
        /\ lastRender.toast
        /\ lastRender.response = <<>>
        /\ mapSource = <<>>
        /\ activeMarkers = <<>>

\* a rejected request, answered while two categories are selected
C12_Witness ==
    /\ lastRender.kind = "neterr"
    /\ Len(filters.categories) = 2
    /\ lastRender.toast
    /\ mapSource = <<>>
    /\ activeMarkers = <<>>

\* C13 as stated: after a render there are as many markers as features in
\* the dataset
C13_MarkerCountEqualsFeatureCount ==
    lastRender.id # 0 => Len(activeMarkers) = Len(mapSource)

\* C13 as the code has it: the markers are those of the dataset's features
\* that have coordinates, in the dataset's order, so that there are as many
\* markers as features when every feature has coordinates
C13_MarkersOfLocatedFeatures ==
    /\ Ids(activeMarkers) = Ids(SelectSeq(mapSource, LAMBDA x : x.coords))
    /\ (\A i \in DOMAIN mapSource : mapSource[i].coords) =>
          Len(activeMarkers) = Len(mapSource)

\* a render of a dataset with a feature that has no coordinates: one marker
\* less than features
C13_Witness ==
    /\ lastRender.id # 0
    /\ \E i \in DOMAIN mapSource : ~mapSource[i].coords
    /\ Len(activeMarkers) = Len(mapSource) - 1

\* C14: no request is cancelled and no answer is dropped: a request leaves
\* the requests in flight only in the step that applies its answer to the
\* dataset and the markers, whatever was applied before
C14_AppliedInCompletionOrder ==
    [][\A req \in requests :
          req \notin requests' =>
             /\ lastRender'.id = req.id
             /\ mapSource' = clientFilter(lastRender'.response, filters)
             /\ activeMarkers' = renderPins(mapSource')]_vars

\* the answer of an earlier request is applied after the answer of a later
\* one: the dataset shows the answer to a request that was sent for another
\* selection of categories than the present one
C14_Witness ==
    /\ lastRender.id # 0
    /\ \E j \in Applied : j > lastRender.id
    /\ lastRender.sent # filters.categories
    /\ lastRender.response # <<>>
    /\ mapSource = clientFilter(lastRender.response, filters)

\* ------------------------------------------------------------------------
\* Detail panel and interactions: properties
\* ------------------------------------------------------------------------
\* C15: openEventDetail given properties without an id reveals the panel
\* and fills it with these properties
C15_DetailShownWithoutId ==
    (lastOpen.called /\ lastOpen.p.id = 0) =>
        detail.open /\ detail.p = lastOpen.p

\* the step sent the request of an interaction
InteractionSent ==
    \E r \in Roots :
        /\ Len(calls'[r]) > Len(calls[r])
        /\ calls'[r][Len(calls'[r])].url = "interact"

\* C16: the request of an interaction is sent only by a click made while an
\* access token is stored, on a button that carries an event id; a click
\* without a session shows the login prompt, a click on a button without id
\* the error, and neither sends a request
C16_InteractionOnlyWhenAllowed ==
    [][/\ InteractionSent => (isLoggedIn(World) /\ detail.p.id # 0)
       /\ lastToast' = "login-prompt" => (~isLoggedIn(World) /\ calls' = calls)
       /\ lastToast' = "invalid-id" => (detail.p.id = 0 /\ calls' = calls)
       /\ (ClickInteractionButton /\ ~isLoggedIn(World)) =>
             lastToast' = "login-prompt"]_vars

\* an interaction was sent while the session was stored; after the session
\* was cleared a click on the same button shows the login prompt
C16_Witness ==
    /\ lastToast = "login-prompt"
    /\ access = NONE
    /\ detail.open
    /\ \E r \in Roots :
          /\ calls[r] # <<>>
          /\ calls[r][1].url = "interact"
          /\ \A k \in DOMAIN calls[r] : calls[r][k].pc = "done"

\* C17: the steps of an interaction, the click that sends it and the return
\* of its apiFetch with any outcome, leave the panel's content, the dataset
\* and the markers as they were; the panel changes only when openEventDetail
\* or closeEventDetail runs, the dataset and the markers only when a reload
\* is rendered
C17_InteractionLeavesViews ==
    [][/\ (InteractionSent \/ (/\ lastReturn'.root # 0
                               /\ lastReturn'.level = 1
                               /\ calls'[lastReturn'.root][1].url = "interact")) =>
             /\ detail' = detail
             /\ mapSource' = mapSource
             /\ activeMarkers' = activeMarkers
       /\ detail'.p # detail.p => lastOpen'.called
       /\ (mapSource' # mapSource \/ activeMarkers' # activeMarkers) =>
             lastRender'.id # 0]_vars

\* an interaction was answered 200: the toast is shown, the panel and the
\* dataset are there as before
C17_Witness ==
    /\ lastToast = "interaction-done"
    /\ lastReturn.res = "200"
    /\ detail.open
    /\ detail.p.going = 0
    /\ mapSource # <<>>

\* ------------------------------------------------------------------------
\* Creation modal: properties
\* ------------------------------------------------------------------------
\* C18: the creation modal goes from closed to open only in a step that
\* starts with a token and a user held, and a step that shows the prompt
\* to log in starts without one of them and leaves the modal closed.
C18_ModalOpensOnlyAuthenticated ==
    [][ /\ (~modal /\ modal') => isLoggedIn(World)
        /\ lastToast' = "login-to-publish" =>
              ~isLoggedIn(World) /\ ~modal /\ ~modal' ]_vars

\* the prompt was shown to a visitor and the modal is closed
C18_Witness == lastToast = "login-to-publish" /\ ~modal /\ access = NONE

\* a create request left the page
CreateSent ==
    \E root \in Roots :
        /\ calls'[root] # <<>>
        /\ calls[root] = <<>>
        /\ calls'[root][1].url = "create"

\* C19: a submit with the latitude or the longitude empty sends no request,
\* shows the location error, leaves the modal open and the draft as it
\* was, and leaves the submit button enabled; a create request is sent
\* only with both present.
C19_NoRequestWithoutLocation ==
    [][ /\ CreateSent => draft.lat # "" /\ draft.lng # ""
        /\ (SubmitForm /\ (draft.lat = "" \/ draft.lng = "")) =>
              /\ form'.locationError
              /\ calls' = calls
              /\ modal /\ modal'
              /\ draft' = draft
              /\ ~form'.disabled ]_vars

\* the location error is shown in the open modal and no create was sent
C19_Witness ==
    /\ form.locationError
    /\ modal
    /\ ~form.disabled
    /\ draft.lat = ""
    /\ \A root \in Roots : calls[root] = <<>> \/ calls[root][1].url # "create"

\* the stages of one submitCreateEvent, in order
CreateOrder ==
    {<<"idle", "posting">>, <<"posting", "reloading">>, <<"posting", "failed">>,
     <<"reloading", "waiting">>, <<"waiting", "done">>}

\* C20: after a successful create the modal is closed and a reload is in
\* flight; the viewport flies to the new event in the step that renders
\* that reload into the dataset and the markers; the detail of the new
\* event is opened by a later step, never before that render.
C20_DetailAfterReload ==
    [][ \A r \in Roots :
          LET c == creates[r]
              d == creates'[r]
          IN  /\ d.pc # c.pc => <<c.pc, d.pc>> \in CreateOrder
              /\ (c.pc = "posting" /\ d.pc = "reloading") =>
                    /\ ~modal'
                    /\ d.reload \in {req.id : req \in requests'}
                    /\ d.reload \notin Applied
                    /\ ~lastOpen'.called
              /\ (c.pc = "reloading" /\ d.pc = "waiting") =>
                    /\ lastRender'.id = c.reload
                    /\ mapSource' = clientFilter(lastRender'.response, filters)
                    /\ activeMarkers' = renderPins(mapSource')
                    /\ c.coords => viewport' = c.id
                    /\ ~lastOpen'.called
              /\ (c.pc = "waiting" /\ d.pc = "done") =>
                    /\ c.reload \in Applied
                    /\ lastOpen'.called
                    /\ detail'.open
                    /\ detail'.p.id = c.id
              /\ (lastOpen'.called /\ lastOpen'.p.id = d.id /\ d.id # 0) =>
                    c.pc = "waiting" ]_vars

\* the detail of the created event is shown over the reloaded map
C20_Witness ==
    \E r \in Roots :
        /\ creates[r].pc = "done"
        /\ creates[r].coords
        /\ detail.open
        /\ detail.p.id = creates[r].id
        /\ viewport = creates[r].id
        /\ ~modal
        /\ creates[r].reload \in Applied

\* ------------------------------------------------------------------------
\* Date controls, markers, normalisation: properties
\* ------------------------------------------------------------------------
\* C29: filters.dateFilter is null, one named range or one custom date; at
\* most one date control is shown as chosen (one button with the class
\* active, or a value in the date input), it is the one filters.dateFilter
\* holds, and with no control chosen filters.dateFilter is null.
C29_OneDateInterpretation ==
    /\ filters.dateFilter \in DateButtons \cup CustomDates \cup {NONE}
    /\ Cardinality(dateUI.active) <= 1
    /\ \A b \in dateUI.active : filters.dateFilter = b /\ dateUI.custom = ""
    /\ dateUI.custom # "" => filters.dateFilter = dateUI.custom /\ dateUI.active = {}
    /\ (dateUI.active = {} /\ dateUI.custom = "") => filters.dateFilter = NONE

\* a named range is chosen after an earlier choice
C29_Witness ==
    /\ dateUI.active = {"week"}
    /\ filters.dateFilter = "week"
    /\ nFetches >= 2

\* the features a render publishes that have coordinates
Located(features) == SelectSeq(features, LAMBDA x : x.coords)

\* C30: after a run of renderPins the Marker objects on the map are the
\* ones this run created, one per feature of the run that has coordinates,
\* and they are the ones activeMarkers holds; no marker of an earlier run
\* is on the map.
C30_MarkersReplaced ==
    [][ lastRender'.id # 0 =>
          /\ \A x \in mapMarkers'.onMap : x.render = Renders'
          /\ {x.id : x \in mapMarkers'.onMap} =
                 {Located(mapSource')[i].id : i \in DOMAIN Located(mapSource')}
          /\ Cardinality(mapMarkers'.onMap) = Len(Located(mapSource'))
          /\ mapMarkers'.held = mapMarkers'.onMap
          /\ Ids(activeMarkers') = Ids(Located(mapSource'))
          /\ mapMarkers'.onMap \cap mapMarkers.onMap = {} ]_vars

\* a later run replaced the markers of an earlier one that had some
C30_Witness ==
    /\ lastRender.id # 0
    /\ Renders >= 2
    /\ mapMarkers.onMap # {}
    /\ \A x \in mapMarkers.onMap : x.render = Renders

\* C27 as stated: the properties openEventDetail has normalised are
\* normalised already: normalising them again gives them back, whatever
\* the category arrived as.
C27_NormaliseIdempotent ==
    lastOpen.called => normaliseProps(lastOpen.p) = lastOpen.p

\* ------------------------------------------------------------------------
\* The draft of the creation form: properties
\* ------------------------------------------------------------------------
\* C25: the tag set never holds more than 5 tags, whatever is added and
\* removed, and an addition made while it holds 5 leaves it as it was.
C25_AtMostFiveTags ==
    [][ /\ Len(draft.tags) <= 5
        /\ Len(draft'.tags) <= 5
        /\ (AddTag /\ Len(draft.tags) = 5) => draft'.tags = draft.tags ]_vars

\* five tags are present
C25_Witness ==
    /\ Len(draft.tags) = 5
    /\ Cardinality({draft.tags[i] : i \in DOMAIN draft.tags}) = 5

\* the normalised form of each value of TagInputs: trimmed, in lower case,
\* every run of whitespace one hyphen
TagNormal ==
    << <<"l", "i", "v", "e", "-", "m", "u", "s", "i", "c">>,
       <<"l", "i", "v", "e", "-", "m", "u", "s", "i", "c">>,
       <<>>,
       <<>>,
       <<"r", "o", "c", "k">>,
       <<"a", "-", "b">>,
       <<"a", "-", "b">>,
       <<"j", "a", "z", "z">>,
       <<"p", "o", "p">>,
       <<"m", "p", "b">>,
       <<"r", "a", "p">> >>

TagSet(tags) == {tags[i] : i \in DOMAIN tags}

\* C26: addTag adds the normalised form of its input when the set has room;
\* it adds nothing when that form is in the set already or when the input
\* is empty after trimming; the set holds no tag twice.
C26_TagsNormalised ==
    [][ /\ Cardinality(TagSet(draft'.tags)) = Len(draft'.tags)
        /\ \A k \in DOMAIN TagInputs :
              AddTagInput(TagInputs[k]) =>
                 LET tag == TagNormal[k] IN
                 IF tag = <<>> \/ tag \in TagSet(draft.tags) \/ Len(draft.tags) >= 5
                 THEN draft'.tags = draft.tags
                 ELSE draft'.tags = Append(draft.tags, tag) ]_vars

\* the set holds live-music and a-b among its tags
C26_Witness ==
    /\ <<"l", "i", "v", "e", "-", "m", "u", "s", "i", "c">> \in TagSet(draft.tags)
    /\ <<"a", "-", "b">> \in TagSet(draft.tags)
    /\ Len(draft.tags) = 2

\* C21: the step in which the handler of a successful submit ends leaves
\* the draft reset: no tags, no latitude, no longitude, no cover preview, no
\* marker on the mini map.
C21_DraftResetAfterSuccess ==
    [][ \A r \in Roots :
          (creates[r].pc = "reloading" /\ creates'[r].pc = "waiting") =>
              /\ draft'.tags = <<>>
              /\ draft'.lat = ""
              /\ draft'.lng = ""
              /\ ~draft'.preview
              /\ ~draft'.marker ]_vars

\* a successful submit has ended and the draft is empty
C21_Witness ==
    \E r \in Roots :
        /\ creates[r].pc = "waiting"
        /\ draft.tags = <<>>
        /\ draft.lat = ""
        /\ ~draft.preview
        /\ ~draft.marker
        /\ ~form.disabled

\* the apiFetch of a submitCreateEvent returned something else than a
\* success, or threw
CreateFailed ==
    /\ lastReturn'.root # 0
    /\ lastReturn'.level = 1
    /\ calls'[lastReturn'.root][1].url = "create"
    /\ lastReturn'.res # "200"

\* a request of a submitCreateEvent that did not succeed returned: its own,
\* or the logout request its failed refresh caused
CreateFailing ==
    /\ lastReturn'.root # 0
    /\ calls'[lastReturn'.root][1].url = "create"
    /\ creates'[lastReturn'.root].pc = "failed"

C24_ClosedModalEmptyDraft ==
    ~modal => draft.tags = <<>> /\ draft.lat = "" /\ draft.lng = ""

\* ------------------------------------------------------------------------
\* Network failures at the boundary of the public operations: properties
\* ------------------------------------------------------------------------
\* C28 as stated: when the request of a user-level operation is rejected
\* (network failure), the step in which the operation ends shows a
\* notification.
C28_NetworkFailureNotified ==
    [][ ( /\ lastReturn'.root # 0
          /\ lastReturn'.level = 1
          /\ lastReturn'.res = "neterr" ) => lastToast' # NONE ]_vars

\* C23 as stated: once its handler has ended no submit button is disabled:
\* not the one of the creation form, not the one of the attached login form.
C23_NoButtonLeftDisabled ==
    /\ (\A r \in Roots : creates[r].pc \notin {"posting", "reloading"})
           => ~form.disabled
    /\ (authModal.open /\ authModal.pc \in {"ended", "thrown"})
           => ~authModal.disabled

\* ------------------------------------------------------------------------
\* The payload of a click: properties
\* ------------------------------------------------------------------------
\* C31: the properties a marker's pin:clicked carries have the id of the
\* feature's properties when these have one, otherwise the id at the
\* Feature level; every other field is the one normaliseProps gave.
C31_MarkerCarriesId ==
    \A i \in DOMAIN activeMarkers :
        LET f == Located(mapSource)[i]
            d == activeMarkers[i].eventData
        IN  /\ f.properties.id # 0 => d.id = f.properties.id
            /\ f.properties.id = 0 => d.id = f.id
            /\ [d EXCEPT !.id = 0] = [normaliseProps(f.properties) EXCEPT !.id = 0]

\* a click on the marker of a feature whose properties carry no id has
\* opened the panel with the id of the Feature level
C31_Witness ==
    /\ lastOpen.called
    /\ mapSource[1].properties.id = 0
    /\ detail.open
    /\ detail.p.id = mapSource[1].id

\* C32 as stated: whatever way an event was clicked, through its marker or
\* through the invisible layer, openEventDetail is given what the marker's
\* click reports, and so shows that event.
C32_LayerClickSameAsMarker ==
    lastOpen.called =>
        /\ lastOpen.p = normaliseProps(activeMarkers[1].eventData)
        /\ detail.open
        /\ detail.p.id = activeMarkers[1].eventData.id

\* ------------------------------------------------------------------------
\* The filter handlers and their fetch: properties
\* ------------------------------------------------------------------------
\* the trimmed form of each value of SearchInputs
SearchNormal(text) ==
    CASE text = ""       -> ""
      [] text = "rock"   -> "rock"
      [] text = " rock " -> "rock"
      [] text = "  "     -> ""

\* C33: an input in the search field leaves a pending timer and changes
\* neither the Filter State nor the requests; the timer, when it fires, fires
\* once for all the inputs before it: it sets searchQ to the trimmed last
\* value and sends one request with it, and the requests sent before stay.
C33_DebouncedSearch ==
    [][ /\ search'.input # search.input =>
              /\ search'.timer
              /\ filters' = filters
              /\ nFetches' = nFetches
              /\ requests' = requests
        /\ filters'.searchQ # filters.searchQ => search.timer
        /\ (search.timer /\ ~search'.timer) =>
              /\ search'.input = search.input
              /\ filters' = [filters EXCEPT !.searchQ = SearchNormal(search.input)]
              /\ nFetches' = nFetches + 1
              /\ requests \subseteq requests'
              /\ Cardinality(requests') = Cardinality(requests) + 1
              /\ hasParam(lastUrl'.query, "q") <=> SearchNormal(search.input) # ""
              /\ hasParam(lastUrl'.query, "q") =>
                    paramValue(lastUrl'.query, "q") =
                        TextValue(SearchNormal(search.input)) ]_vars

\* two inputs followed each other while a request was under way, then the
\* timer fired: searchQ is the second input's text, trimmed, and both
\* requests are under way
C33_Witness ==
    /\ search = [input |-> " rock ", timer |-> FALSE]
    /\ filters.searchQ = "rock"
    /\ Cardinality(requests) = 2
    /\ hasParam(lastUrl.query, "q")

\* C34: a step that changes the Filter State sends one request, and its URL
\* is the one fetchEvents builds from the state after the change.
C34_MutationRefetches ==
    [][ filters' # filters =>
          /\ nFetches' = nFetches + 1
          /\ \E req \in requests' \ requests : req.id = nFetches'
          /\ lastUrl' = fetchEventsUrl(filters', clock) ]_vars

\* the custom date was chosen and the request of that step asks for it
C34_Witness ==
    /\ filters.dateFilter \in CustomDates
    /\ dateUI.custom = filters.dateFilter
    /\ hasParam(lastUrl.query, "start_date")
    /\ paramValue(lastUrl.query, "start_date") = TextValue(filters.dateFilter)

\* ------------------------------------------------------------------------
\* Concurrent operations on the session: properties
\* ------------------------------------------------------------------------
\* the latest step's refresh failed, and while it was under way the refresh
\* of another apiFetch stored a new token pair
RefreshLostRace ==
    /\ lastRefresh.root # 0
    /\ lastRefresh.out # "200"
    /\ lastRefresh.sent = OldToken
    /\ lastRefresh.before = <<NewToken, NewToken>>

\* C35 as stated: a refresh that fails after the refresh of a concurrent
\* request has stored a new token pair does not end the session: the tokens
\* stay and no logout is started.
C35_RefreshNotUndone ==
    RefreshLostRace =>
        /\ <<access, refresh>> = <<NewToken, NewToken>>
        /\ \A k \in DOMAIN calls[lastRefresh.root] :
              calls[lastRefresh.root][k].url # "logout"

\* C36 as stated: the response of a request that was sent with two or more
\* categories selected is shown filtered by the categories of that request.
C36_FilteredByRequestCategories ==
    (lastRender.id # 0 /\ Len(lastRender.sent) >= 2) =>
        mapSource = SelectSeq(lastRender.response,
                              LAMBDA x : NormalisedSlug(x) \in Selected(lastRender.sent))

\* ------------------------------------------------------------------------
\* The creation form while a submit is under way: properties
\* ------------------------------------------------------------------------
\* C37 as stated: when the handler of a successful submit ends, the tags
\* that were added to the draft after the submit's success closed the modal
\* are still there.
C37_LaterEditsKept ==
    [][ \A r \in Roots :
          (creates[r].pc = "reloading" /\ creates'[r].pc = "waiting") =>
              \A i \in DOMAIN draft.tags :
                  draft.tags[i] \notin TagSet(creates[r].tags) =>
                      draft.tags[i] \in TagSet(draft'.tags) ]_vars

\* the operations whose create request awaits an answer (of the request, of
\* its refresh or of its retry)
CreateInFlight ==
    {r \in Roots : /\ calls[r] # <<>>
                   /\ calls[r][1].url = "create"
                   /\ calls[r][1].pc # "done"}

C39_UserImpliesToken ==
    user # NONE => access # NONE

\* the auth:logout events dispatched by the logouts that the failed refreshes
\* of one operation's chain called
Dispatched(chain) == Cardinality({k \in DOMAIN chain : chain[k].loggedOut})

\* C40 as stated: once an operation whose refresh failed and every request
\* it caused have ended, auth:logout was dispatched once because of it, and
\* the events were reloaded once for every auth:logout.
C40_OneLogoutSignal ==
    /\ nFetches = 1 + signals
    /\ \A r \in Roots :
          (calls[r] # <<>> /\ calls[r][1].refreshed = "failed" /\ AllDone(calls[r]))
              => Dispatched(calls[r]) = 1

====
